---- MODULE Spec2Model ----
(***************************************************************************)
(* Treepedia: the resumable batch pipeline.                                *)
(*   - Sample Collector   metadata_collector.py  pano_metadata_collector   *)
(*   - Image Fetcher      images_collector.py    pano_images_collector     *)
(*   - GVI Aggregator     calculate_gvi.py       green_view_computing      *)
(*   - admission gate     utils/concurrent.py    gather_with_concurrency   *)
(* One run of a program is a sequence of steps; a run can be interrupted   *)
(* (the process is killed) at any step and the program started again on    *)
(* the same directories.                                                   *)
(***************************************************************************)
EXTENDS Integers, Sequences, FiniteSets, TLC

\* ---------------------------------------------------------------- bounds
MaxFeatures == 3        \* largest number of sample points of a collector run
MaxNumSites == 3        \* largest --num (batch size) given on the command line
MaxRuns == 2            \* number of invocations on the same directories
MaxSmallLayer == 1      \* largest layer of the runs on nearly empty layers

\* utils/concurrent.py:3 sets 500; the gate is modelled with a smaller number
\* of permits so that a batch can hold more requests than permits.
MAX_CONCURRENT == 2

\* ------------------------------------------------- the metadata service
\* A panoID is a string; it is modelled as the tuple of its characters.
PanoIds == {<<"A">>, <<"P", "1">>}

\* The 'date' of a panorama, split at '-' (the service answers "YYYY-MM").
DateOf(id) == IF id = <<"A">> THEN <<2019, 6>> ELSE <<2018, 12>>
LatOf(id) == IF id = <<"A">> THEN 42 ELSE 43
LngOf(id) == IF id = <<"A">> THEN 0 - 71 ELSE 0 - 72

NoPano == [status |-> "ZERO_RESULTS"]
OkPano(id) ==
    [status |-> "OK", pano_id |-> id, date |-> DateOf(id),
     location |-> [lat |-> LatOf(id), lng |-> LngOf(id)]]
Responses == {NoPano} \cup {OkPano(id) : id \in PanoIds}

\* ------------------------------------------------------------ arithmetic
Min(a, c) == IF a < c THEN a ELSE c
Floor(a, c) == a \div c
Ceil(a, c) == (a + c - 1) \div c

VARIABLES
    prog,               \* the program that is run: "metadata", "images", "gvi",
                        \* "export", "classify", or one of the legacy
                        \* programs "metadataCollector", "GreenViewCalculate"
    \* inputs of the Sample Collector
    num_features,       \* layer.GetFeatureCount()
    num_sites_arg,      \* the num_sites argument (--num)
    resp,               \* the metadata service: point index -> response
    \* inputs of the Image Fetcher and of the GVI Aggregator
    greenmonths,
    num_gsv_imgs,
    \* the file system
    output_metadata,    \* <<start, end>> -> lines of Pnt_start{s}_end{e}.jsonl
    output_streetview,  \* panoID -> names <<fov, heading, pitch>> of its views
    output_greenview,   \* <<start, end>> -> lines of GV_Pnt_start{s}_end{e}.jsonl
    gsv_images,         \* names <<pano_id, fov, heading, pitch>> in images/
    output_shapefile,   \* the point dataset: whether it exists, its features
    \* the running program
    pc,                 \* "stopped" or the place in the running program
    b,                  \* index of the batch loop / of the metadata file loop
    unique_pano_ids,
    viewed_pano_ids,
    svi_requests,       \* the requests handed to gather: <<pano_id, heading>>
    batch_images,       \* request number -> "img" | "None"
    pano_i,             \* position in the loop over the panoramas of a file
    head_i,             \* position in 'for heading in headings'
    images,             \* the views of the panorama, each as its vegetation percentage
    k,                  \* position in the loop over the results of gather
    \* the running gather_with_concurrency
    task,               \* request number -> "pending" | "running" | "done"
    results,            \* what gather will return, in the order of its arguments
    \* the running read_gvi_data
    scan_order,         \* the GVI files in the order glob yields them
    gvi_data,
    \* vegetation_classification
    image,              \* the pixels <<R, G, B>> of the image, row after row
    green_percent,      \* what the classification of 'image' gave
    \* history
    prev_percent,       \* what it gave before the last green pixel came in
    stage_log,          \* the programs run before this one, and how they went
    gv_procs,           \* aggregator processes run side by side: where each is
    writers,            \* GVI file -> the processes that wrote records to it
    out_of_order,       \* a lookup has returned before one admitted earlier
    batch_of,           \* <<request, batch file>> of the requests of the run
    completed,          \* those of batch_of that have returned
    start_store,        \* the image store as the current run found it
    fetched_ok,         \* <<file, line, heading>> of the views the aggregator got
    issued,             \* the requests sent by the current run
    got,                \* views the imagery service has delivered
    finished,           \* names of the batch files whose batch ran to its end
    failed,             \* names of the batches whose last processing broke off
    ends                \* how each run so far ended

inputVars == <<prog, num_features, num_sites_arg, resp, greenmonths, num_gsv_imgs>>
mcVars == <<unique_pano_ids, finished, failed>>
icVars == <<viewed_pano_ids, svi_requests, batch_images, got>>
gvVars == <<pano_i, head_i, images>>
exVars == <<scan_order, gvi_data>>
histVars == <<start_store, fetched_ok>>
vcVars == <<image, green_percent, prev_percent>>
orderVars == <<out_of_order, batch_of, completed>>
procVars == <<gv_procs, writers>>
sideVars == <<vcVars, output_shapefile, stage_log, procVars>>
restVars == <<sideVars, results, orderVars>>
disk == <<output_metadata, output_streetview, output_greenview, gsv_images>>

vars == <<inputVars, restVars, mcVars, icVars, gvVars, exVars, histVars, disk,
          pc, b, k, task, issued, ends>>

\* ------------------------------------------------------ batch arithmetic
num_sites == Min(num_sites_arg, num_features)
batch == Ceil(num_features, num_sites)
StartOf(i) == i * num_sites
EndOf(i) ==
    IF (i + 1) * num_sites > num_features THEN num_features
    ELSE (i + 1) * num_sites
FileName(i) == <<StartOf(i), EndOf(i)>>
BatchSize(i) == EndOf(i) - StartOf(i)

ExistsNever(dir, name) == FALSE
Exists(dir, name) == name \in DOMAIN dir
CreateFile(dir, name) ==
    [n \in (DOMAIN dir) \cup {name} |-> IF n = name THEN <<>> ELSE dir[n]]
SetFile(dir, name, lines) == [dir EXCEPT ![name] = lines]

\* the result list of gather: the answers in the order of the arguments
BatchMetadataFromStart(n) == [i \in 1..BatchSize(n) |-> resp[i - 1]]
BatchMetadata(n) == [i \in 1..BatchSize(n) |-> resp[StartOf(n) + i - 1]]
\* the list gather returns: the result of task i at place i
NoResult == [status |-> "PENDING"]
PutInCompletionOrder(res, i, r) ==
    LET free == {j \in DOMAIN res : res[j] = NoResult}
    IN  [res EXCEPT ![CHOOSE j \in free : \A o \in free : j <= o] = r]
Put(res, i, r) == [res EXCEPT ![i] = r]
batch_metadata == results

PanoRecord(m) ==
    [panoID |-> m.pano_id, panoDate |-> m.date,
     longitude |-> m.location.lng, latitude |-> m.location.lat]

\* ------------------------------------------------------------ admission
InFlightNeverReleased ==
    Cardinality({i \in DOMAIN task : task[i] \in {"running", "done"}})
\* the permits of the semaphore that are taken
InFlight == Cardinality({i \in DOMAIN task : task[i] = "running"})
\* 'async with semaphore': a permit is free
GateAlwaysOpen == TRUE
Gate == InFlight < MAX_CONCURRENT

Prefixes(s) == {SubSeq(s, 1, n) : n \in 0..Len(s)}

\* ----------------------------------------------------- the Image Fetcher
fov == 360 \div num_gsv_imgs
pitch == 0
headings == [i \in 1..3 |-> fov * (i - 1)]

\* pano_date.split('-')[-1]
Month(pano_date) == pano_date[Len(pano_date)]

SetMax(S) == CHOOSE x \in S : \A y \in S : y <= x
\* Path.stem: the name without its last suffix
Stem(name) ==
    LET dots == {i \in 2..(Len(name) - 1) : name[i] = "."}
    IN  IF dots = {} THEN name ELSE SubSeq(name, 1, SetMax(dots) - 1)

\* sorted(input_metadata.glob('*.jsonl')) orders the paths as strings.  The
\* names differ in "{start}_end{end}.": decimal digits (48..57), '_' (95)
\* and '.' (46) decide the order.
RECURSIVE Dec(_)
Dec(n) == IF n < 10 THEN <<48 + n>> ELSE Append(Dec(n \div 10), 48 + (n % 10))
NameChars(n) == Dec(n[1]) \o <<95>> \o Dec(n[2]) \o <<46>>
RECURSIVE LexLess(_, _)
LexLess(x, y) ==
    IF x = <<>> THEN y # <<>>
    ELSE IF y = <<>> THEN FALSE
    ELSE IF x[1] # y[1] THEN x[1] < y[1]
    ELSE LexLess(Tail(x), Tail(y))
RECURSIVE SortNames(_)
SortNames(S) ==
    IF S = {} THEN <<>>
    ELSE LET m == CHOOSE x \in S :
                     \A y \in S \ {x} : LexLess(NameChars(x), NameChars(y))
         IN  <<m>> \o SortNames(S \ {m})
metadata_filesUnsorted ==
    LET sorted == SortNames(DOMAIN output_metadata)
    IN  [i \in 1..Len(sorted) |-> sorted[Len(sorted) + 1 - i]]
metadata_files == SortNames(DOMAIN output_metadata)

EligibleIgnoringViewed(metadata, viewed) ==
    ~(Month(metadata.panoDate) \notin greenmonths)
\* 'for line in lines': the panoramas of one metadata file to fetch
Eligible(metadata, viewed) ==
    ~(Month(metadata.panoDate) \notin greenmonths \/ metadata.panoID \in viewed)
AddViewedNever(viewed, pano_id) == viewed
\* viewed_pano_ids.add(pano_id)
AddViewed(viewed, pano_id) == viewed \cup {pano_id}
RECURSIVE SelectPanos(_, _, _, _)
SelectPanos(lines, j, viewed, ids) ==
    IF j > Len(lines) THEN [viewed |-> viewed, pano_ids |-> ids]
    ELSE IF Eligible(lines[j], viewed)
         THEN SelectPanos(lines, j + 1, AddViewed(viewed, lines[j].panoID),
                          Append(ids, lines[j].panoID))
         ELSE SelectPanos(lines, j + 1, viewed, ids)

\* 'for pano_id, in pano_ids' unpacks every panoID as a one-element sequence
UnpackFails(ids) == \E j \in 1..Len(ids) : Len(ids[j]) # 1
Unpack(id) == <<id[1]>>
Requests(ids) ==
    [i \in 1..(Len(ids) * 3) |->
        <<Unpack(ids[((i - 1) \div 3) + 1]), headings[((i - 1) % 3) + 1]>>]

ViewName(req) == <<fov, req[2], pitch>>
\* mkdir(exist_ok=True) and img.save
SaveView(store, pano_id, name) ==
    [d \in (DOMAIN store) \cup {pano_id} |->
        IF d = pano_id
        THEN (IF pano_id \in DOMAIN store THEN store[d] ELSE {}) \cup {name}
        ELSE store[d]]

\* the batch the running gather works for: the file it reads or writes
batch_file == IF prog = "metadata" THEN FileName(b) ELSE metadata_files[b]

\* the request behind task i of the running gather
RequestOf(i) ==
    IF prog = "metadata" THEN <<"metadata", StartOf(b) + i - 1>>
    ELSE <<"image", svi_requests[i]>>

\* --------------------------------------------------- inputs of the model
MaxLines == 2
MetaNames == {<<0, 2>>, <<2, 4>>}
\* a PanoRecord whose panoDate has the form "YYYY-MM-DD" (6 December 2018)
DatedRecord ==
    [panoID |-> <<"B">>, panoDate |-> <<2018, 12, 6>>,
     longitude |-> 0 - 73, latitude |-> 44]
MetaRecords == {PanoRecord(OkPano(id)) : id \in PanoIds} \cup {DatedRecord}
MetaContents == UNION {[1..n -> MetaRecords] : n \in 0..MaxLines}
MetaDirs == UNION {[S -> MetaContents] : S \in SUBSET MetaNames}
GreenSeasons == {{6, 7, 8}, 1..12}
RECURSIVE TotalLines(_, _)
TotalLines(dir, names) ==
    IF names = {} THEN 0
    ELSE LET n == CHOOSE x \in names : TRUE
         IN  Len(dir[n]) + TotalLines(dir, names \ {n})
MaxIcRecords == 2
IcMetaDirs == {d \in MetaDirs : TotalLines(d, DOMAIN d) <= MaxIcRecords}
NumImages == {3, 4}

\* ------------------------------------------------------------------ Init
IdleProgram ==
    /\ pc = "stopped"
    /\ b = 0
    /\ unique_pano_ids = {}
    /\ viewed_pano_ids = {}
    /\ svi_requests = <<>>
    /\ batch_images = <<>>
    /\ k = 1
    /\ task = <<>>
    /\ issued = {}
    /\ got = {}
    /\ pano_i = 1
    /\ head_i = 1
    /\ images = <<>>
    /\ scan_order = <<>>
    /\ gvi_data = <<>>
    /\ start_store = <<>>
    /\ fetched_ok = {}
    /\ output_streetview = <<>>
    /\ gsv_images = {}
    /\ finished = {}
    /\ failed = {}
    /\ ends = <<>>
    /\ results = <<>>
    /\ out_of_order = FALSE
    /\ batch_of = {}
    /\ completed = {}
    /\ stage_log = <<>>
\* one aggregator process, the one of pc and b
NoProcs ==
    /\ gv_procs = <<>>
    /\ writers = <<>>
\* no dataset at the destination of the Result Exporter
NoDataSource == [exists |-> FALSE, features |-> <<>>]
\* no image has been handed to vegetation_classification
NotClassified == [raw |-> 0, threshold |-> 0, count |-> 0, size |-> 0]
NoImage ==
    /\ image = <<>>
    /\ green_percent = NotClassified
    /\ prev_percent = NotClassified
Idle ==
    /\ IdleProgram
    /\ NoProcs
    /\ output_greenview = <<>>
    /\ output_shapefile = NoDataSource
    /\ NoImage

InitMC ==
    /\ prog = "metadata"
    /\ num_features \in 1..MaxFeatures
    /\ num_sites_arg \in 1..MaxNumSites
    /\ resp \in [0..(num_features - 1) -> Responses]
    /\ greenmonths = {}
    /\ num_gsv_imgs = 3
    /\ output_metadata = <<>>
    /\ Idle

InitIC ==
    /\ prog = "images"
    /\ num_features = 1
    /\ num_sites_arg = 1
    /\ resp = <<>>
    /\ greenmonths \in GreenSeasons
    /\ num_gsv_imgs \in NumImages
    /\ output_metadata \in IcMetaDirs
    /\ Idle

\* ------------------------------------------------ gather_with_concurrency
\* sem_task: 'async with semaphore' admits the task, the request goes out.
\* gather starts the tasks in the order of its arguments and the semaphore
\* wakes its waiters first come, first served: tasks are admitted in order.
Admit(i) ==
    /\ pc = "gather"
    /\ task[i] = "pending"
    /\ \A j \in 1..(i - 1) : task[j] # "pending"
    /\ Gate
    /\ task' = [task EXCEPT ![i] = "running"]
    /\ issued' = issued \cup {RequestOf(i)}
    /\ batch_of' = batch_of \cup {<<RequestOf(i), batch_file>>}
    /\ UNCHANGED <<exVars, histVars, gvVars, inputVars, sideVars, results,
                   out_of_order, completed, mcVars, icVars, disk, pc, b, k,
                   ends>>

FirstToReturn(i) == TRUE
LastToReturn(i) == \A j \in DOMAIN task : j # i => task[j] = "done"

\* --------------------------------------------------- the Sample Collector
\* asyncio.run(pano_metadata_collector(...)): everything before the loop
StartRun ==
    /\ prog = "metadata"
    /\ pc = "stopped"
    /\ Len(ends) < MaxRuns
    /\ num_sites # 0
    /\ pc' = "loop"
    /\ b' = 0
    /\ unique_pano_ids' = {}
    /\ k' = 1
    /\ task' = <<>>
    /\ issued' = {}
    /\ out_of_order' = FALSE
    /\ batch_of' = {}
    /\ completed' = {}
    /\ UNCHANGED <<exVars, histVars, gvVars, inputVars, sideVars, results,
                   finished, failed, icVars, disk, ends>>

\* 'batch = ceil(num_features / num_sites)' with num_sites = 0: the division
\* raises ZeroDivisionError before the loop, nothing catches it
StartRunDividesByZero ==
    /\ prog = "metadata"
    /\ pc = "stopped"
    /\ Len(ends) < MaxRuns
    /\ num_sites = 0
    /\ ends' = Append(ends, "ZeroDivisionError")
    /\ issued' = {}
    /\ UNCHANGED <<exVars, histVars, gvVars, inputVars, restVars, mcVars,
                   icVars, disk, pc, b, k, task>>

\* 'if output_file_path.exists(): continue'
SkipBatch ==
    /\ pc = "loop"
    /\ b < batch
    /\ Exists(output_metadata, FileName(b))
    /\ b' = b + 1
    /\ UNCHANGED <<exVars, histVars, gvVars, inputVars, restVars, mcVars,
                   icVars, disk, pc, k, task,
                   issued, ends>>

\* open('w'), read the coordinates, hand the lookups to gather
OpenBatch ==
    /\ pc = "loop"
    /\ b < batch
    /\ ~Exists(output_metadata, FileName(b))
    /\ output_metadata' = CreateFile(output_metadata, FileName(b))
    /\ task' = [i \in 1..BatchSize(b) |-> "pending"]
    /\ pc' = "gather"
    /\ failed' = failed \ {FileName(b)}
    /\ results' = [i \in 1..BatchSize(b) |-> NoResult]
    /\ UNCHANGED <<exVars, histVars, gvVars, inputVars, sideVars, orderVars,
                   unique_pano_ids, finished, icVars,
                   output_streetview, output_greenview, gsv_images, b, k,
                   issued, ends>>

\* 'return await response.json()'; the permit is released.  gather returns
\* once the last of its tasks has returned.
LookupReturns(i) ==
    /\ prog = "metadata"
    /\ pc = "gather"
    /\ task[i] = "running"
    /\ task' = [task EXCEPT ![i] = "done"]
    /\ pc' = IF LastToReturn(i) THEN "write" ELSE "gather"
    /\ k' = 1
    /\ results' = Put(results, i, BatchMetadata(b)[i])
    /\ out_of_order' =
          (out_of_order \/ \E j \in 1..(i - 1) : task[j] = "running")
    /\ completed' = completed \cup {<<RequestOf(i), batch_file>>}
    /\ UNCHANGED <<exVars, histVars, gvVars, inputVars, sideVars, batch_of,
                   mcVars, icVars, disk, b, issued, ends>>

\* session.get raises (transport failure): nothing catches it, gather hands
\* it to the collector, the 'with' block closes the file, the run ends.
LookupRaises(i) ==
    /\ prog = "metadata"
    /\ pc = "gather"
    /\ task[i] = "running"
    /\ pc' = "stopped"
    /\ task' = <<>>
    /\ failed' = failed \cup {FileName(b)}
    /\ ends' = Append(ends, "error")
    /\ UNCHANGED <<exVars, histVars, gvVars, inputVars, restVars,
                   unique_pano_ids, finished, icVars,
                   disk, b, k,
                   issued>>

\* one pass of 'for metadata_json in batch_metadata'; after the last one the
\* file is closed and the batch loop goes on.
SeenNever(id) == FALSE
Seen(id) == id \in unique_pano_ids

ProcessResult ==
    /\ pc = "write"
    /\ LET m == batch_metadata[k]
           keep == m.status = "OK" /\ ~Seen(m.pano_id)
           last == k = BatchSize(b)
       IN  /\ unique_pano_ids' =
                 IF keep THEN unique_pano_ids \cup {m.pano_id}
                 ELSE unique_pano_ids
           /\ output_metadata' =
                 IF keep
                 THEN SetFile(output_metadata, FileName(b),
                              Append(output_metadata[FileName(b)], PanoRecord(m)))
                 ELSE output_metadata
           /\ k' = IF last THEN 1 ELSE k + 1
           /\ pc' = IF last THEN "loop" ELSE "write"
           /\ b' = IF last THEN b + 1 ELSE b
           /\ task' = IF last THEN <<>> ELSE task
           /\ finished' = IF last THEN finished \cup {FileName(b)} ELSE finished
    /\ UNCHANGED <<exVars, histVars, gvVars, inputVars, restVars, failed,
                   icVars, output_streetview,
                   output_greenview, gsv_images, issued, ends>>

\* the batch loop is exhausted, the coroutine returns
Finish ==
    /\ pc = "loop"
    /\ b = batch
    /\ pc' = "stopped"
    /\ ends' = Append(ends, "done")
    /\ UNCHANGED <<exVars, histVars, gvVars, inputVars, restVars, mcVars,
                   icVars, disk, b, k, task, issued>>

\* the process is interrupted between two batches
InterruptBetween ==
    /\ pc = "loop"
    /\ pc' = "stopped"
    /\ ends' = Append(ends, "between")
    /\ UNCHANGED <<exVars, histVars, gvVars, inputVars, restVars, mcVars,
                   icVars, disk, b, k, task, issued>>

\* the process is interrupted inside a batch; of the lines written so far a
\* prefix has reached the disk (all of them when the file is closed on the
\* way out, fewer when the write buffer is lost).
InterruptInside ==
    /\ prog = "metadata"
    /\ pc \in {"gather", "write"}
    /\ pc' = "stopped"
    /\ task' = <<>>
    /\ \E lines \in Prefixes(output_metadata[FileName(b)]) :
          output_metadata' = SetFile(output_metadata, FileName(b), lines)
    /\ failed' = failed \cup {FileName(b)}
    /\ ends' = Append(ends, "inside")
    /\ UNCHANGED <<exVars, histVars, gvVars, inputVars, restVars,
                   unique_pano_ids, finished, icVars,
                   output_streetview, output_greenview, gsv_images, b, k,
                   issued>>

NextMC ==
    \/ StartRun
    \/ SkipBatch
    \/ OpenBatch
    \/ \E i \in DOMAIN task : Admit(i)
    \/ \E i \in DOMAIN task : LookupReturns(i)
    \/ \E i \in DOMAIN task : LookupRaises(i)
    \/ ProcessResult
    \/ Finish
    \/ InterruptBetween
    \/ InterruptInside

SpecMC == InitMC /\ [][NextMC]_vars

\* The collector on layers of few features, the empty layer among them
InitMCSmall ==
    /\ prog = "metadata"
    /\ num_features \in 0..MaxSmallLayer
    /\ num_sites_arg \in 1..MaxNumSites
    /\ resp \in [0..(num_features - 1) -> Responses]
    /\ greenmonths = {}
    /\ num_gsv_imgs = 3
    /\ output_metadata = <<>>
    /\ Idle
NextMCSmall == NextMC \/ StartRunDividesByZero
SpecMCSmall == InitMCSmall /\ [][NextMCSmall]_vars

\* ---------------------------------- the legacy collector (metadataCollector)
\* 'batch = featureNum // num'
batchLegacy == num_features \div num_sites_arg
\* 'start = b * num', 'end = (b + 1) * num', cut at featureNum
startLegacy(n) == n * num_sites_arg
endLegacy(n) == Min((n + 1) * num_sites_arg, num_features)
\* 'Pnt_start%s_end%s.txt'
outputTextFile(n) == <<startLegacy(n), endLegacy(n)>>

InitLegacyMC ==
    /\ prog = "metadataCollector"
    /\ num_features \in 0..MaxFeatures
    /\ num_sites_arg \in 1..MaxNumSites
    /\ resp \in [0..(num_features - 1) -> Responses]
    /\ greenmonths = {}
    /\ num_gsv_imgs = 3
    /\ output_metadata = <<>>
    /\ Idle

\* GSVpanoMetadataCollector(...): everything before the batch loop
LegacyStart ==
    /\ prog = "metadataCollector"
    /\ pc = "stopped"
    /\ Len(ends) < MaxRuns
    /\ pc' = "loop"
    /\ b' = 0
    /\ k' = 0
    /\ issued' = {}
    /\ UNCHANGED <<exVars, histVars, gvVars, inputVars, restVars, mcVars,
                   icVars, disk, task, ends>>

\* 'if os.path.exists(outputGSVinfoFile): continue'
LegacySkipBatch ==
    /\ prog = "metadataCollector"
    /\ pc = "loop"
    /\ b < batchLegacy
    /\ Exists(output_metadata, outputTextFile(b))
    /\ b' = b + 1
    /\ UNCHANGED <<exVars, histVars, gvVars, inputVars, restVars, mcVars,
                   icVars, disk, pc, k, task, issued, ends>>

\* open(outputGSVinfoFile, 'w')
LegacyOpenBatch ==
    /\ prog = "metadataCollector"
    /\ pc = "loop"
    /\ b < batchLegacy
    /\ ~Exists(output_metadata, outputTextFile(b))
    /\ output_metadata' = CreateFile(output_metadata, outputTextFile(b))
    /\ pc' = "points"
    /\ k' = startLegacy(b)
    /\ UNCHANGED <<exVars, histVars, gvVars, inputVars, restVars, mcVars,
                   icVars, output_streetview, output_greenview, gsv_images,
                   b, task, issued, ends>>

\* one pass of 'for i in range(start, end)': the lookup of point i.  Without
\* a panorama the loop goes on; with one, 'panoInfo.items()[4]' subscripts a
\* view of the dictionary, which raises TypeError: the run ends there and
\* the file stays as it is.
LegacyLookup ==
    /\ prog = "metadataCollector"
    /\ pc = "points"
    /\ k < endLegacy(b)
    /\ issued' = issued \cup {<<"metadata", k>>}
    /\ IF resp[k] = NoPano
       THEN /\ k' = k + 1
            /\ UNCHANGED <<pc, ends>>
       ELSE /\ pc' = "stopped"
            /\ ends' = Append(ends, "TypeError")
            /\ UNCHANGED k
    /\ UNCHANGED <<exVars, histVars, gvVars, inputVars, restVars, mcVars,
                   icVars, disk, b, task>>

\* the points of the batch are exhausted: the file is closed
LegacyCloseBatch ==
    /\ prog = "metadataCollector"
    /\ pc = "points"
    /\ k = endLegacy(b)
    /\ pc' = "loop"
    /\ b' = b + 1
    /\ UNCHANGED <<exVars, histVars, gvVars, inputVars, restVars, mcVars,
                   icVars, disk, k, task, issued, ends>>

\* 'for b in range(batch)' is exhausted, the function returns
LegacyFinish ==
    /\ prog = "metadataCollector"
    /\ pc = "loop"
    /\ b = batchLegacy
    /\ pc' = "stopped"
    /\ ends' = Append(ends, "done")
    /\ UNCHANGED <<exVars, histVars, gvVars, inputVars, restVars, mcVars,
                   icVars, disk, b, k, task, issued>>

NextLegacyMC ==
    \/ LegacyStart
    \/ LegacySkipBatch
    \/ LegacyOpenBatch
    \/ LegacyLookup
    \/ LegacyCloseBatch
    \/ LegacyFinish

SpecLegacyMC == InitLegacyMC /\ [][NextLegacyMC]_vars

\* The collector with nobody killing the process, and the event loop at
\* work: a task that can take a permit takes it, a lookup under way comes
\* back (or raises).
NextGather ==
    \/ StartRun
    \/ SkipBatch
    \/ OpenBatch
    \/ \E i \in DOMAIN task : Admit(i)
    \/ \E i \in DOMAIN task : LookupReturns(i)
    \/ \E i \in DOMAIN task : LookupRaises(i)
    \/ ProcessResult
    \/ Finish
FairGather ==
    \A i \in 1..MaxNumSites :
        /\ WF_vars(i \in DOMAIN task /\ Admit(i))
        /\ WF_vars(i \in DOMAIN task /\ (LookupReturns(i) \/ LookupRaises(i)))
SpecGather == InitMC /\ [][NextGather]_vars /\ FairGather

\* ----------------------------------------------------- the Image Fetcher
ViewedAtStartComplete(store) ==
    {Stem(d) : d \in {x \in DOMAIN store : Cardinality(store[x]) = 3}}
\* the stems of the entries of the image store
ViewedAtStart(store) == {Stem(d) : d \in DOMAIN store}

\* asyncio.run(pano_images_collector(...)): everything before the file loop
StartImages ==
    /\ prog = "images"
    /\ pc = "stopped"
    /\ Len(ends) < MaxRuns
    /\ viewed_pano_ids' = ViewedAtStart(output_streetview)
    /\ pc' = "files"
    /\ b' = 1
    /\ k' = 1
    /\ task' = <<>>
    /\ svi_requests' = <<>>
    /\ batch_images' = <<>>
    /\ issued' = {}
    /\ got' = {}
    /\ start_store' = output_streetview
    /\ out_of_order' = FALSE
    /\ batch_of' = {}
    /\ completed' = {}
    /\ UNCHANGED <<exVars, fetched_ok, gvVars, inputVars, sideVars, results,
                   mcVars, disk, ends>>

\* one metadata file: read it, select the panoramas, build the requests and
\* hand them to gather
ReadMetaFile ==
    /\ pc = "files"
    /\ b <= Len(metadata_files)
    /\ LET sel == SelectPanos(output_metadata[metadata_files[b]], 1,
                              viewed_pano_ids, <<>>)
       IN  /\ viewed_pano_ids' = sel.viewed
           /\ IF UnpackFails(sel.pano_ids)
              THEN \* ValueError: the run ends
                   /\ pc' = "stopped"
                   /\ ends' = Append(ends, "unpack")
                   /\ UNCHANGED <<svi_requests, batch_images, task, b>>
              ELSE IF sel.pano_ids = <<>>
              THEN \* gather of nothing returns at once, nothing to save
                   /\ b' = b + 1
                   /\ svi_requests' = <<>>
                   /\ batch_images' = <<>>
                   /\ UNCHANGED <<pc, ends, task>>
              ELSE /\ svi_requests' = Requests(sel.pano_ids)
                   /\ task' = [i \in 1..(Len(sel.pano_ids) * 3) |-> "pending"]
                   /\ batch_images' = [i \in 1..(Len(sel.pano_ids) * 3) |-> "None"]
                   /\ pc' = "gather"
                   /\ UNCHANGED <<ends, b>>
    /\ UNCHANGED <<exVars, histVars, gvVars, inputVars, restVars, mcVars, disk,
                   k, issued, got>>

\* streetview_image returns (info, img_content) or (info, None)
\* the requests the service can answer with an error status ('response.ok'
\* is false): those for panorama A
Unreliable(req) == req[1] = <<"A">>

ImageReturns(i, ok) ==
    /\ prog = "images"
    /\ pc = "gather"
    /\ task[i] = "running"
    /\ ok \/ Unreliable(svi_requests[i])
    /\ task' = [task EXCEPT ![i] = "done"]
    /\ batch_images' = [batch_images EXCEPT ![i] = IF ok THEN "img" ELSE "None"]
    /\ got' = IF ok
              THEN got \cup {<<svi_requests[i][1], ViewName(svi_requests[i])>>}
              ELSE got
    /\ pc' = IF LastToReturn(i) THEN "save" ELSE "gather"
    /\ k' = 1
    /\ completed' = completed \cup {<<RequestOf(i), batch_file>>}
    /\ UNCHANGED <<exVars, histVars, gvVars, inputVars, sideVars, results,
                   out_of_order, batch_of, mcVars, viewed_pano_ids,
                   svi_requests, disk, b, issued, ends>>

\* session.get raises (transport failure): nothing catches it, the run ends
ImageRaises(i) ==
    /\ prog = "images"
    /\ pc = "gather"
    /\ task[i] = "running"
    /\ pc' = "stopped"
    /\ task' = <<>>
    /\ ends' = Append(ends, "error")
    \* the event loop is gone, and what it knew of its requests with it
    /\ batch_of' = {}
    /\ completed' = {}
    /\ UNCHANGED <<exVars, histVars, gvVars, inputVars, sideVars, results,
                   out_of_order, mcVars, icVars, disk, b, k, issued>>

\* one pass of 'for info, image_content in batch_images'
SaveImage ==
    /\ pc = "save"
    /\ LET last == k = Len(svi_requests)
       IN  /\ output_streetview' =
                 IF batch_images[k] # "None"
                 THEN SaveView(output_streetview, svi_requests[k][1],
                               ViewName(svi_requests[k]))
                 ELSE output_streetview
           /\ k' = IF last THEN 1 ELSE k + 1
           /\ pc' = IF last THEN "files" ELSE "save"
           /\ b' = IF last THEN b + 1 ELSE b
           /\ task' = IF last THEN <<>> ELSE task
    /\ UNCHANGED <<exVars, histVars, gvVars, inputVars, restVars, mcVars,
                   icVars, output_metadata,
                   output_greenview, gsv_images, issued, ends>>

\* the file loop is exhausted, the coroutine returns
FinishImages ==
    /\ pc = "files"
    /\ b > Len(metadata_files)
    /\ pc' = "stopped"
    /\ ends' = Append(ends, "done")
    /\ UNCHANGED <<exVars, histVars, gvVars, inputVars, restVars, mcVars,
                   icVars, disk, b, k, task, issued>>

\* the process is interrupted
InterruptImages ==
    /\ pc \in {"files", "save"} \/ (pc = "gather" /\ prog = "images")
    /\ pc' = "stopped"
    /\ task' = <<>>
    /\ ends' = Append(ends, IF pc = "files" THEN "between" ELSE "inside")
    \* the event loop is gone, and what it knew of its requests with it
    /\ batch_of' = {}
    /\ completed' = {}
    /\ UNCHANGED <<exVars, histVars, gvVars, inputVars, sideVars, results,
                   out_of_order, mcVars, icVars, disk, b, k, issued>>

NextIC ==
    \/ StartImages
    \/ ReadMetaFile
    \/ \E i \in DOMAIN task : Admit(i)
    \/ \E i \in DOMAIN task, ok \in BOOLEAN : ImageReturns(i, ok)
    \/ \E i \in DOMAIN task : ImageRaises(i)
    \/ SaveImage
    \/ FinishImages
    \/ InterruptImages

SpecIC == InitIC /\ [][NextIC]_vars

\* a run of either program that sends its requests through the gate
InitFetch == InitMC \/ InitIC
NextFetch ==
    \/ NextMC
    \/ StartImages
    \/ ReadMetaFile
    \/ \E i \in DOMAIN task, ok \in BOOLEAN : ImageReturns(i, ok)
    \/ \E i \in DOMAIN task : ImageRaises(i)
    \/ SaveImage
    \/ FinishImages
    \/ InterruptImages
SpecFetch == InitFetch /\ [][NextFetch]_vars

\* ---------------------------------------------------- the GVI Aggregator
\* vegetation_classification is a function of the image, and the image one of
\* the panorama and the heading: the percentage the model gives each view
Percent(pano_id, heading) ==
    IF heading = 0 THEN 100 ELSE IF pano_id = <<"A">> THEN 40 ELSE 0

\* the metadata directories the aggregator is run on
MaxGvRecords == 2
\* a batch file as pano_metadata_collector writes it: the records of OK
\* lookups, no panoID twice (unique_pano_ids)
CollectorFile(lines) ==
    /\ \A i \in DOMAIN lines : \E id \in PanoIds : lines[i] = PanoRecord(OkPano(id))
    /\ \A i, j \in DOMAIN lines : i # j => lines[i].panoID # lines[j].panoID
GvMetaDirs ==
    {d \in MetaDirs : /\ TotalLines(d, DOMAIN d) <= MaxGvRecords
                      /\ \A n \in DOMAIN d : CollectorFile(d[n])}

RECURSIVE Sum(_)
Sum(xs) == IF xs = <<>> THEN 0 ELSE xs[1] + Sum(Tail(xs))
MeanOverAllHeadings(xs) == [sum |-> Sum(xs), n |-> 3]
\* np.mean as the fraction sum / n; of an empty list it is 0 / 0 (nan)
Mean(xs) == [sum |-> Sum(xs), n |-> Len(xs)]

\* 'for line in lines': the records of the green season, duplicates kept
RECURSIVE GreenPanos(_)
GreenPanos(lines) ==
    IF lines = <<>> THEN <<>>
    ELSE IF Month(lines[1].panoDate) \notin greenmonths
         THEN GreenPanos(Tail(lines))
         ELSE <<lines[1]>> \o GreenPanos(Tail(lines))

meta_file == metadata_files[b]
panosUnfiltered == output_metadata[meta_file]
panos == GreenPanos(output_metadata[meta_file])

GviRecord(pano, green_view_index) ==
    [panoID |-> pano.panoID, panoDate |-> pano.panoDate,
     longitude |-> pano.longitude, latitude |-> pano.latitude,
     greenview |-> green_view_index]

InitGV ==
    /\ prog = "gvi"
    /\ num_features = 1
    /\ num_sites_arg = 1
    /\ resp = <<>>
    /\ greenmonths \in GreenSeasons
    /\ num_gsv_imgs \in NumImages
    /\ output_metadata \in GvMetaDirs
    /\ Idle

\* green_view_computing(...): everything before the file loop
StartGvi ==
    /\ prog = "gvi"
    /\ pc = "stopped"
    /\ Len(ends) < MaxRuns
    /\ pc' = "gv_files"
    /\ b' = 1
    /\ pano_i' = 1
    /\ head_i' = 1
    /\ images' = <<>>
    /\ issued' = {}
    /\ out_of_order' = FALSE
    /\ batch_of' = {}
    /\ completed' = {}
    /\ UNCHANGED <<exVars, histVars, inputVars, sideVars, results, mcVars,
                   icVars, disk, k, task, ends>>

\* 'if gv_file_path.exists(): continue'
SkipGvFile ==
    /\ pc = "gv_files"
    /\ b <= Len(metadata_files)
    /\ Exists(output_greenview, meta_file)
    /\ b' = b + 1
    /\ UNCHANGED <<exVars, histVars, inputVars, restVars, mcVars, icVars,
                   gvVars, disk, pc, k, task, issued,
                   ends>>

\* gv_file_path.open('w'); a file without green-season records is closed at once
OpenGvFile ==
    /\ pc = "gv_files"
    /\ b <= Len(metadata_files)
    /\ ~Exists(output_greenview, meta_file)
    /\ output_greenview' = CreateFile(output_greenview, meta_file)
    /\ IF panos = <<>>
       THEN b' = b + 1 /\ pc' = pc
       ELSE b' = b /\ pc' = "gv_views"
    /\ pano_i' = 1
    /\ head_i' = 1
    /\ images' = <<>>
    /\ finished' = IF panos = <<>> THEN finished \cup {meta_file} ELSE finished
    /\ UNCHANGED <<exVars, histVars, inputVars, restVars, unique_pano_ids,
                   failed, icVars,
                   output_metadata, output_streetview, gsv_images, k, task,
                   issued, ends>>

\* requests.get for one heading returns: a view when image_data.ok, nothing
\* otherwise.  After the last heading the mean is taken and the line written;
\* after the last panorama the file is closed and the file loop goes on.
ViewReturns(ok) ==
    /\ pc = "gv_views"
    /\ LET pano == panos[pano_i]
           name == <<pano.panoID, fov, headings[head_i], pitch>>
           imgs == IF ok THEN Append(images, Percent(pano.panoID, headings[head_i]))
                   ELSE images
           lastView == head_i = Len(headings)
           lastPano == pano_i = Len(panos)
       IN  /\ issued' = issued \cup {<<"image", <<pano.panoID, headings[head_i]>>>>}
           /\ gsv_images' = IF ok THEN gsv_images \cup {name} ELSE gsv_images
           /\ images' = IF lastView THEN <<>> ELSE imgs
           /\ head_i' = IF lastView THEN 1 ELSE head_i + 1
           /\ output_greenview' =
                 IF lastView
                 THEN SetFile(output_greenview, meta_file,
                              Append(output_greenview[meta_file],
                                     GviRecord(pano, Mean(imgs))))
                 ELSE output_greenview
           /\ pano_i' = IF ~lastView THEN pano_i ELSE IF lastPano THEN 1 ELSE pano_i + 1
           /\ b' = IF lastView /\ lastPano THEN b + 1 ELSE b
           /\ pc' = IF lastView /\ lastPano THEN "gv_files" ELSE pc
           /\ batch_of' = batch_of \cup
                 {<<<<"image", <<pano.panoID, headings[head_i]>>>>, meta_file>>}
           /\ completed' = completed \cup
                 {<<<<"image", <<pano.panoID, headings[head_i]>>>>, meta_file>>}
           /\ fetched_ok' =
                 IF ok THEN fetched_ok \cup {<<meta_file, pano_i, headings[head_i]>>}
                 ELSE fetched_ok
           /\ finished' =
                 IF lastView /\ lastPano THEN finished \cup {meta_file}
                 ELSE finished
    /\ UNCHANGED <<exVars, start_store, inputVars, sideVars, results,
                   out_of_order, unique_pano_ids, failed, icVars,
                   output_metadata, output_streetview, k, task, ends>>

\* requests.get raises (transport failure): nothing catches it, the 'with'
\* block closes the file with the lines written so far, the run ends
ViewRaises ==
    /\ pc = "gv_views"
    /\ pc' = "stopped"
    /\ issued' = issued \cup {<<"image", <<panos[pano_i].panoID, headings[head_i]>>>>}
    /\ ends' = Append(ends, "error")
    /\ batch_of' = batch_of \cup
          {<<<<"image", <<panos[pano_i].panoID, headings[head_i]>>>>, meta_file>>}
    /\ UNCHANGED <<exVars, histVars, inputVars, sideVars, results,
                   out_of_order, completed, mcVars, icVars, gvVars, disk, b,
                   k, task>>

\* the file loop is exhausted
FinishGvi ==
    /\ pc = "gv_files"
    /\ b > Len(metadata_files)
    /\ pc' = "stopped"
    /\ ends' = Append(ends, "done")
    /\ UNCHANGED <<exVars, histVars, inputVars, restVars, mcVars, icVars,
                   gvVars, disk, b, k, task, issued>>

\* the process is interrupted; inside a file a prefix of the lines written so
\* far has reached the disk
InterruptGvi ==
    /\ pc \in {"gv_files", "gv_views"}
    /\ pc' = "stopped"
    /\ IF pc = "gv_views"
       THEN \E lines \in Prefixes(output_greenview[meta_file]) :
               output_greenview' = SetFile(output_greenview, meta_file, lines)
       ELSE output_greenview' = output_greenview
    /\ ends' = Append(ends, IF pc = "gv_files" THEN "between" ELSE "inside")
    /\ UNCHANGED <<exVars, histVars, inputVars, restVars, mcVars, icVars,
                   gvVars, output_metadata,
                   output_streetview, gsv_images, b, k, task, issued>>

NextGV ==
    \/ StartGvi
    \/ SkipGvFile
    \/ OpenGvFile
    \/ \E ok \in BOOLEAN : ViewReturns(ok)
    \/ ViewRaises
    \/ FinishGvi
    \/ InterruptGvi

SpecGV == InitGV /\ [][NextGV]_vars

\* ------------------------------ the legacy aggregator (GreenViewCalculate)
\* 'headingArr = 360 / 6 * np.array([0, 1, 2, 3, 4, 5])'
headingArr == [i \in 1..6 |-> (360 \div 6) * (i - 1)]
numGSVImg == Len(headingArr)
\* the value of greenPercent after 'except Exception:'
greenPercentKeepPartial(partial) == partial
greenPercentOnFailure(partial) == 0 - 1000
\* 'greenViewVal = greenPercent / numGSVImg', kept as the fraction
greenViewVal(greenPercent) == [sum |-> greenPercent, n |-> numGSVImg]
\* 'for panoID, panoDate, lat, lng in zip(panoIDLst, panoDateLst, panoLonLst,
\* panoLatLst)': the third name takes the element of panoLonLst, the fourth
\* that of panoLatLst
ZipRow(pano) ==
    [panoID |-> pano.panoID, panoDate |-> pano.panoDate,
     lat |-> pano.longitude, lng |-> pano.latitude]
jsonLine(row, value) ==
    [panoID |-> row.panoID, panoDate |-> row.panoDate,
     longitude |-> row.lng, latitude |-> row.lat, greenview |-> value]

InitLegacyGV ==
    /\ prog = "GreenViewCalculate"
    /\ num_features = 1
    /\ num_sites_arg = 1
    /\ resp = <<>>
    /\ greenmonths \in GreenSeasons
    /\ num_gsv_imgs = 3
    /\ output_metadata \in GvMetaDirs
    /\ Idle

\* GreenViewComputing_ogr_6Horizon(...): everything before the file loop
LegacyGviStart ==
    /\ prog = "GreenViewCalculate"
    /\ pc = "stopped"
    /\ Len(ends) < MaxRuns
    /\ pc' = "txt_files"
    /\ b' = 0
    /\ finished' = {}
    /\ pano_i' = 1
    /\ head_i' = 1
    /\ images' = <<>>
    /\ issued' = {}
    /\ UNCHANGED <<exVars, histVars, inputVars, restVars, unique_pano_ids,
                   failed, icVars, disk, k, task, ends>>

\* 'for txtfilename in allTxtFiles': glob.glob gives the files in the order
\* of the directory, which is any order.  'if os.path.exists(...): continue'
LegacySkipTxtFile(i) ==
    /\ prog = "GreenViewCalculate"
    /\ pc = "txt_files"
    /\ metadata_files[i] \notin finished
    /\ Exists(output_greenview, metadata_files[i])
    /\ finished' = finished \cup {metadata_files[i]}
    /\ UNCHANGED <<exVars, histVars, inputVars, restVars, unique_pano_ids,
                   failed, icVars, gvVars, disk, pc, b, k, task, issued, ends>>

\* open(GreenViewTxtFile, 'w'); without a record of the green season the
\* file is closed at once
LegacyOpenTxtFile(i) ==
    /\ prog = "GreenViewCalculate"
    /\ pc = "txt_files"
    /\ metadata_files[i] \notin finished
    /\ ~Exists(output_greenview, metadata_files[i])
    /\ output_greenview' = CreateFile(output_greenview, metadata_files[i])
    /\ b' = i
    /\ IF GreenPanos(output_metadata[metadata_files[i]]) = <<>>
       THEN /\ finished' = finished \cup {metadata_files[i]}
            /\ pc' = pc
       ELSE /\ finished' = finished
            /\ pc' = "txt_views"
    /\ pano_i' = 1
    /\ head_i' = 1
    /\ images' = <<>>
    /\ UNCHANGED <<exVars, histVars, inputVars, restVars, unique_pano_ids,
                   failed, icVars, output_metadata, output_streetview,
                   gsv_images, k, task, issued, ends>>

\* the end of the heading loop of one panorama, by its last heading or by
\* 'break': the line is written, the next panorama or the next file follows
LegacyWriteLine(greenPercent) ==
    LET lastPano == pano_i = Len(panos)
    IN  /\ output_greenview' =
              SetFile(output_greenview, meta_file,
                      Append(output_greenview[meta_file],
                             jsonLine(ZipRow(panos[pano_i]),
                                      greenViewVal(greenPercent))))
        /\ images' = <<>>
        /\ head_i' = 1
        /\ pano_i' = IF lastPano THEN 1 ELSE pano_i + 1
        /\ pc' = IF lastPano THEN "txt_files" ELSE pc
        /\ finished' = IF lastPano THEN finished \cup {meta_file} ELSE finished

\* one pass of 'for heading in headingArr' without exception: the view is
\* fetched, opened and classified, its percentage added to greenPercent
LegacyViewClassified ==
    /\ prog = "GreenViewCalculate"
    /\ pc = "txt_views"
    /\ LET pano == panos[pano_i]
           imgs == Append(images, Percent(pano.panoID, headingArr[head_i]))
       IN  /\ issued' = issued \cup {<<"image", <<pano.panoID, headingArr[head_i]>>>>}
           /\ fetched_ok' = fetched_ok \cup {<<meta_file, pano_i, headingArr[head_i]>>}
           /\ IF head_i = Len(headingArr)
              THEN LegacyWriteLine(Sum(imgs))
              ELSE /\ images' = imgs
                   /\ head_i' = head_i + 1
                   /\ UNCHANGED <<output_greenview, pano_i, pc, finished>>
    /\ UNCHANGED <<exVars, start_store, inputVars, restVars, unique_pano_ids,
                   failed, icVars, output_metadata, output_streetview,
                   gsv_images, b, k, task, ends>>

\* the request, Image.open, img.save or the classifier raises an Exception:
\* 'greenPercent = -1000' and 'break'
LegacyViewFails ==
    /\ prog = "GreenViewCalculate"
    /\ pc = "txt_views"
    /\ issued' = issued \cup {<<"image", <<panos[pano_i].panoID, headingArr[head_i]>>>>}
    /\ LegacyWriteLine(greenPercentOnFailure(Sum(images)))
    /\ UNCHANGED <<exVars, histVars, inputVars, restVars, unique_pano_ids,
                   failed, icVars, output_metadata, output_streetview,
                   gsv_images, b, k, task, ends>>

\* the file loop is exhausted
LegacyGviFinish ==
    /\ prog = "GreenViewCalculate"
    /\ pc = "txt_files"
    /\ finished = DOMAIN output_metadata
    /\ pc' = "stopped"
    /\ ends' = Append(ends, "done")
    /\ UNCHANGED <<exVars, histVars, inputVars, restVars, mcVars, icVars,
                   gvVars, disk, b, k, task, issued>>

\* the process is interrupted; inside a file a prefix of the lines written so
\* far has reached the disk
LegacyGviInterrupt ==
    /\ prog = "GreenViewCalculate"
    /\ pc \in {"txt_files", "txt_views"}
    /\ pc' = "stopped"
    /\ IF pc = "txt_views"
       THEN \E lines \in Prefixes(output_greenview[meta_file]) :
               output_greenview' = SetFile(output_greenview, meta_file, lines)
       ELSE output_greenview' = output_greenview
    /\ ends' = Append(ends, IF pc = "txt_files" THEN "between" ELSE "inside")
    /\ UNCHANGED <<exVars, histVars, inputVars, restVars, mcVars, icVars,
                   gvVars, output_metadata, output_streetview, gsv_images,
                   b, k, task, issued>>

NextLegacyGV ==
    \/ LegacyGviStart
    \/ \E i \in 1..Len(metadata_files) : LegacySkipTxtFile(i)
    \/ \E i \in 1..Len(metadata_files) : LegacyOpenTxtFile(i)
    \/ LegacyViewClassified
    \/ LegacyViewFails
    \/ LegacyGviFinish
    \/ LegacyGviInterrupt

SpecLegacyGV == InitLegacyGV /\ [][NextLegacyGV]_vars

\* ------------------------------- several aggregator processes side by side
\* green_view_computing started MaxProcs times on the same metadata and output
\* directories.  Each process has its own place in the file loop; the disk is
\* shared.  'gv_file_path.exists()' and 'gv_file_path.open('w')' are two
\* system calls, and the other processes run between them.
MaxProcs == 2
Procs == 1..MaxProcs
ProcFile(p) == metadata_files[gv_procs[p].b]
ProcPanos(p) == GreenPanos(output_metadata[ProcFile(p)])
AllViews(pano) == [i \in 1..3 |-> Percent(pano.panoID, headings[i])]
\* the lines one process writes for its metadata file
RECURSIVE GviLines(_)
GviLines(ps) ==
    IF ps = <<>> THEN <<>>
    ELSE <<GviRecord(ps[1], Mean(AllViews(ps[1])))>> \o GviLines(Tail(ps))

InitProcs ==
    /\ prog = "gvi"
    /\ num_features = 1
    /\ num_sites_arg = 1
    /\ resp = <<>>
    /\ greenmonths \in GreenSeasons
    /\ num_gsv_imgs \in NumImages
    /\ output_metadata \in GvMetaDirs
    /\ IdleProgram
    /\ output_greenview = <<>>
    /\ output_shapefile = NoDataSource
    /\ NoImage
    /\ gv_procs = [p \in Procs |-> [pc |-> "stopped", b |-> 0]]
    /\ writers = [n \in DOMAIN output_metadata |-> {}]

\* a process is started
StartProc(p) ==
    /\ gv_procs[p] = [pc |-> "stopped", b |-> 0]
    /\ gv_procs' = [gv_procs EXCEPT ![p] = [pc |-> "gv_files", b |-> 1]]
    /\ UNCHANGED <<inputVars, vcVars, output_shapefile, stage_log, writers,
                   results, orderVars, mcVars, icVars, gvVars, exVars,
                   histVars, disk, pc, b, k, task, issued, ends>>

\* 'if gv_file_path.exists(): continue'
ProcChecks(p) ==
    /\ gv_procs[p].pc = "gv_files"
    /\ gv_procs[p].b <= Len(metadata_files)
    /\ gv_procs' =
          [gv_procs EXCEPT ![p] =
              IF Exists(output_greenview, ProcFile(p))
              THEN [pc |-> "gv_files", b |-> @.b + 1]
              ELSE [pc |-> "gv_open", b |-> @.b]]
    /\ UNCHANGED <<inputVars, vcVars, output_shapefile, stage_log, writers,
                   results, orderVars, mcVars, icVars, gvVars, exVars,
                   histVars, disk, pc, b, k, task, issued, ends>>

\* gv_file_path.open('w'): the file is created, or cut to nothing if it is
\* there by now
ProcOpens(p) ==
    /\ gv_procs[p].pc = "gv_open"
    /\ output_greenview' = CreateFile(output_greenview, ProcFile(p))
    /\ gv_procs' = [gv_procs EXCEPT ![p].pc = "gv_views"]
    /\ UNCHANGED <<inputVars, vcVars, output_shapefile, stage_log, writers,
                   results, orderVars, mcVars, icVars, gvVars, exVars,
                   histVars, output_metadata, output_streetview, gsv_images,
                   pc, b, k, task, issued, ends>>

\* the loop over the panoramas and the end of the 'with' block: the lines of
\* the process reach the file from its own offset 0 when the file is closed
ProcWrites(p) ==
    /\ gv_procs[p].pc = "gv_views"
    /\ output_greenview' =
          SetFile(CreateFile(output_greenview, ProcFile(p)), ProcFile(p),
                  GviLines(ProcPanos(p)))
    /\ writers' = IF ProcPanos(p) = <<>> THEN writers
                ELSE [writers EXCEPT ![ProcFile(p)] = @ \cup {p}]
    /\ gv_procs' = [gv_procs EXCEPT ![p] = [pc |-> "gv_files", b |-> @.b + 1]]
    /\ UNCHANGED <<inputVars, vcVars, output_shapefile, stage_log, results,
                   orderVars, mcVars, icVars, gvVars, exVars, histVars,
                   output_metadata, output_streetview, gsv_images, pc, b, k,
                   task, issued, ends>>

\* the file loop of a process ends
ProcFinishes(p) ==
    /\ gv_procs[p].pc = "gv_files"
    /\ gv_procs[p].b > Len(metadata_files)
    /\ gv_procs' = [gv_procs EXCEPT ![p].pc = "done"]
    /\ UNCHANGED <<inputVars, vcVars, output_shapefile, stage_log, writers,
                   results, orderVars, mcVars, icVars, gvVars, exVars,
                   histVars, disk, pc, b, k, task, issued, ends>>

NextProcs ==
    \/ \E p \in Procs : StartProc(p)
    \/ \E p \in Procs : ProcChecks(p)
    \/ \E p \in Procs : ProcOpens(p)
    \/ \E p \in Procs : ProcWrites(p)
    \/ \E p \in Procs : ProcFinishes(p)

SpecProcs == InitProcs /\ [][NextProcs]_vars

\* any of the three programs that work batch by batch, with the defaults of
\* the command line: three images per panorama, every month a green month
\* (the collector takes no months)
InitAll ==
    /\ InitMC \/ InitIC \/ InitGV
    /\ num_gsv_imgs = 3
    /\ greenmonths \in {{}, 1..12}
NextAll == NextFetch \/ NextGV
SpecAll == InitAll /\ [][NextAll]_vars


\* --------------------------------------------------- the Result Exporter
\* the GVI directories read_gvi_data is run on: the same panoID may come with
\* different greenview values in different lines
MaxExLines == 2
ExGreenviews == {[sum |-> 100, n |-> 1], [sum |-> 40, n |-> 2]}
ExRecords ==
    {GviRecord(PanoRecord(OkPano(id)), g) : id \in PanoIds, g \in ExGreenviews}
ExContents == UNION {[1..n -> ExRecords] : n \in 0..MaxExLines}
ExGviDirs == UNION {[S -> ExContents] : S \in SUBSET MetaNames}

\* glob yields the files of the directory in an order of its own
GlobOrders(dir) ==
    {o \in UNION {[1..n -> DOMAIN dir] : n \in {Cardinality(DOMAIN dir)}} :
        \A i, j \in DOMAIN o : i # j => o[i] # o[j]}

\* a dataset left at the destination by something else
OldDataSource ==
    [exists |-> TRUE,
     features |-> <<[PntNum |-> 0, panoID |-> <<"O">>, panoDate |-> <<2017, 7>>,
                     greenView |-> [sum |-> 10, n |-> 1],
                     point |-> <<0 - 70, 41>>]>>]

InitEX ==
    /\ prog = "export"
    /\ num_features = 1
    /\ num_sites_arg = 1
    /\ resp = <<>>
    /\ greenmonths = {}
    /\ num_gsv_imgs = 3
    /\ output_metadata = <<>>
    /\ output_greenview \in ExGviDirs
    /\ output_shapefile \in {NoDataSource, OldDataSource}
    /\ IdleProgram
    /\ NoProcs
    /\ NoImage

\* read_gvi_data(input_gvi_data): the empty set and list, the glob
StartRead ==
    /\ prog = "export"
    /\ pc = "stopped"
    /\ Len(ends) < MaxRuns
    /\ scan_order' \in GlobOrders(output_greenview)
    /\ unique_pano_ids' = {}
    /\ gvi_data' = <<>>
    /\ b' = 1
    /\ k' = 1
    /\ pc' = "scan"
    /\ UNCHANGED <<histVars, gvVars, inputVars, restVars, finished, failed,
                   icVars, disk,
                   task, issued, ends>>

SeenInGviDataNever(pano_id) == FALSE
\* 'if pano_id not in unique_pano_ids'
SeenInGviData(pano_id) == pano_id \in unique_pano_ids

\* one pass of 'for line in lines'
ReadGviLine ==
    /\ pc = "scan"
    /\ b <= Len(scan_order)
    /\ k <= Len(output_greenview[scan_order[b]])
    /\ LET data == output_greenview[scan_order[b]][k]
           pano_id == data.panoID
       IN  IF ~SeenInGviData(pano_id)
           THEN /\ gvi_data' = Append(gvi_data, data)
                /\ unique_pano_ids' = unique_pano_ids \cup {pano_id}
           ELSE UNCHANGED <<gvi_data, unique_pano_ids>>
    /\ k' = k + 1
    /\ UNCHANGED <<scan_order, histVars, gvVars, inputVars, restVars, finished,
                   failed,
                   icVars, disk, pc, b, task, issued, ends>>

\* the lines of the file are exhausted: the next file of the glob
NextGviFile ==
    /\ pc = "scan"
    /\ b <= Len(scan_order)
    /\ k > Len(output_greenview[scan_order[b]])
    /\ b' = b + 1
    /\ k' = 1
    /\ UNCHANGED <<exVars, histVars, gvVars, inputVars, restVars, mcVars,
                   icVars, disk, pc,
                   task, issued, ends>>

\* 'return gvi_data': the list goes to create_point_feature_ogr
ReturnGviData ==
    /\ pc = "scan"
    /\ b > Len(scan_order)
    /\ pc' = "create"
    /\ UNCHANGED <<exVars, histVars, gvVars, inputVars, restVars, mcVars,
                   icVars, disk, b, k, task, issued, ends>>

NewDataSourceKeeping(old) == [exists |-> TRUE, features |-> old.features]
\* DeleteDataSource when the path exists, then CreateDataSource, CreateLayer
\* and CreateField: a dataset without features
NewDataSource(old) == [exists |-> TRUE, features |-> <<>>]

\* create_point_feature_ogr(...): everything before the loop
CreateDataSource ==
    /\ pc = "create"
    /\ output_shapefile' = NewDataSource(output_shapefile)
    /\ k' = 1
    /\ pc' = "features"
    /\ UNCHANGED <<exVars, histVars, gvVars, inputVars, vcVars, stage_log, procVars,
                   results, orderVars, mcVars, icVars, disk, b, task, issued,
                   ends>>

\* the feature made of record number idx of the list
Feature(idx, data) ==
    [PntNum |-> idx, panoID |-> data.panoID, panoDate |-> data.panoDate,
     greenView |-> data.greenview, point |-> <<data.longitude, data.latitude>>]

\* one pass of 'for idx, data in enumerate(gvi_data)'
CreateFeature ==
    /\ pc = "features"
    /\ k <= Len(gvi_data)
    /\ output_shapefile' =
          [output_shapefile EXCEPT
              !.features = Append(@, Feature(k - 1, gvi_data[k]))]
    /\ k' = k + 1
    /\ UNCHANGED <<exVars, histVars, gvVars, inputVars, vcVars, stage_log, procVars,
                   results, orderVars, mcVars, icVars, disk, pc, b, task,
                   issued, ends>>

\* data_source.Destroy()
DestroyDataSource ==
    /\ pc = "features"
    /\ k > Len(gvi_data)
    /\ pc' = "stopped"
    /\ ends' = Append(ends, "done")
    /\ UNCHANGED <<exVars, histVars, gvVars, inputVars, restVars, mcVars,
                   icVars, disk, b, k, task, issued>>

NextEX ==
    \/ StartRead
    \/ ReadGviLine
    \/ NextGviFile
    \/ ReturnGviData
    \/ CreateDataSource
    \/ CreateFeature
    \/ DestroyDataSource

SpecEX == InitEX /\ [][NextEX]_vars

\* ------------------------------------------------- the programs in a row
\* The four programs run one after the other on the same directories, each
\* from its own command line: the next one is started when the first run of
\* the one before has come to its end by itself.
\* The scenario: four sample points, two of which resolve to the panorama
\* "P1" captured in June 2019; green season June to August, three images
\* per panorama.  The same scenario is also run with a panorama whose name
\* has one character, "Q".
ScenarioIds == {<<"P", "1">>, <<"Q">>}
ScenarioPano(id) ==
    [status |-> "OK", pano_id |-> id, date |-> <<2019, 6>>,
     location |-> [lat |-> 43, lng |-> 0 - 72]]
ScenarioResponses ==
    UNION {{r \in [0..3 -> {ScenarioPano(id), NoPano, OkPano(<<"A">>)}] :
               Cardinality({i \in 0..3 : r[i] = ScenarioPano(id)}) = 2} :
           id \in ScenarioIds}

InitE2E ==
    /\ prog = "metadata"
    /\ num_features = 4
    /\ num_sites_arg \in {2, 4}
    /\ resp \in ScenarioResponses
    /\ greenmonths = {6, 7, 8}
    /\ num_gsv_imgs = 3
    /\ output_metadata = <<>>
    /\ Idle

NextProgram(p) ==
    CASE p = "metadata" -> "images"
      [] p = "images" -> "gvi"
      [] OTHER -> "export"

\* the next program is started: a new process, the same directories
NextStage ==
    /\ prog \in {"metadata", "images", "gvi"}
    /\ pc = "stopped"
    /\ Len(ends) = 1
    /\ ends[1] \in {"done", "unpack"}
    /\ stage_log' =
          Append(stage_log, [prog |-> prog, end |-> ends[1], issued |-> issued])
    /\ prog' = NextProgram(prog)
    /\ ends' = <<>>
    /\ b' = 0
    /\ k' = 1
    /\ task' = <<>>
    /\ issued' = {}
    /\ unique_pano_ids' = {}
    /\ viewed_pano_ids' = {}
    /\ svi_requests' = <<>>
    /\ batch_images' = <<>>
    /\ got' = {}
    /\ pano_i' = 1
    /\ head_i' = 1
    /\ images' = <<>>
    /\ start_store' = <<>>
    /\ fetched_ok' = {}
    /\ finished' = {}
    /\ failed' = {}
    /\ results' = <<>>
    /\ out_of_order' = FALSE
    /\ batch_of' = {}
    /\ completed' = {}
    /\ UNCHANGED <<num_features, num_sites_arg, resp, greenmonths,
                   num_gsv_imgs, vcVars, output_shapefile, procVars, exVars,
                   disk, pc>>

NextE2E ==
    \/ NextFetch
    \/ NextGV
    \/ NextEX
    \/ NextStage

SpecE2E == InitE2E /\ [][NextE2E]_vars

\* ------------------------------------------------ the Vegetation Classifier
\* vegetation_classification(image, segment=False).  'img = image / 255.0':
\* a channel value c / 255 is kept as the integer c, ExG as 255 * ExG, and a
\* threshold as the integer 255 * 512 * threshold (the centre of a histogram
\* bin is a multiple of 1 / 512 of the range of the values).
MaxPixels == 3
Unit == 255 * 512
red(p) == p[1]
green(p) == p[2]
blue(p) == p[3]
\* green_red_diff + green_blue_diff
green_pixels(p) == (green(p) - red(p)) + (green(p) - blue(p))

\* a comparison gives an array of booleans, written 1 and 0
Mask(cond) == IF cond THEN 1 ELSE 0
\* the product of two boolean arrays is their conjunction
NpMul(x, y) == x * y
NpAddAsIntegers(x, y) == x + y
\* the sum of two boolean arrays is a boolean array: their disjunction
NpAdd(x, y) == IF x + y > 0 THEN 1 ELSE 0

green_img_thre(p) ==
    NpMul(NpMul(Mask(red(p) * 10 < 6 * 255), Mask(blue(p) * 10 < 6 * 255)),
          Mask(green(p) * 10 < 9 * 255))
green_img_shadow(p) ==
    NpMul(NpMul(Mask(red(p) * 10 < 3 * 255), Mask(green(p) * 10 < 3 * 255)),
          Mask(blue(p) * 10 < 3 * 255))

\* skimage.filters.threshold_otsu on an array of floats: a histogram of 256
\* bins between the least and the greatest value, the between-class variance
\* weight1 * weight2 * (mean1 - mean2) ** 2 of every cut, the centre of the
\* first bin where it is greatest.  An array of one value gives that value.
SetMin(S) == CHOOSE x \in S : \A y \in S : x <= y
BinOf(v, lo, hi) == IF v = hi THEN 255 ELSE ((v - lo) * 256) \div (hi - lo)
RECURSIVE SumAt(_, _)
SumAt(f, S) ==
    IF S = {} THEN 0
    ELSE LET i == CHOOSE x \in S : TRUE IN f[i] + SumAt(f, S \ {i})
\* the variance of the cut after bin idx, as a fraction
variance12(bins, idx) ==
    LET lower == {i \in DOMAIN bins : bins[i] <= idx}
        upper == (DOMAIN bins) \ lower
        weight1 == Cardinality(lower)
        weight2 == Cardinality(upper)
        d == SumAt(bins, lower) * weight2 - SumAt(bins, upper) * weight1
    IN  [num |-> d * d, den |-> weight1 * weight2]
Less(x, y) == x.num * y.den < y.num * x.den
threshold_otsu(img) ==
    LET values == [i \in DOMAIN img |-> green_pixels(img[i])]
        lo == SetMin({values[i] : i \in DOMAIN img})
        hi == SetMax({values[i] : i \in DOMAIN img})
        bins == [i \in DOMAIN img |-> BinOf(values[i], lo, hi)]
        \* the variance changes only at a bin that holds a value
        cuts == {bins[i] : i \in DOMAIN img} \ {255}
        idx == CHOOSE c \in cuts :
                   /\ \A o \in cuts : ~Less(variance12(bins, c), variance12(bins, o))
                   /\ \A o \in cuts :
                         o < c => Less(variance12(bins, o), variance12(bins, c))
    IN  IF lo = hi THEN 512 * lo
        ELSE 512 * lo + (2 * idx + 1) * (hi - lo)

thresholdUnclamped(raw) == raw
\* 'if threshold > 0.1: ... elif threshold < 0.05: ...'
threshold(raw) ==
    IF raw * 10 > Unit THEN Unit \div 10
    ELSE IF raw * 20 < Unit THEN Unit \div 20
    ELSE raw

green_mask(p, thr) == Mask(green_pixels(p) * 512 > thr)
green_shadow_mask(p) == Mask(green_pixels(p) * 20 > 255)
green_img(p, thr) ==
    NpAdd(NpMul(green_img_thre(p), green_mask(p, thr)),
          NpMul(green_shadow_mask(p), green_img_shadow(p)))

\* np.sum(green_img) and green_img.size; green_percent is 100 * count / size
Classification(img) ==
    LET raw == threshold_otsu(img)
        thr == threshold(raw)
        marks == [i \in DOMAIN img |-> green_img(img[i], thr)]
    IN  [raw |-> raw, threshold |-> thr,
         count |-> SumAt(marks, DOMAIN img), size |-> Len(img)]

\* the images of the model
PureGreen == <<0, 255, 0>>
Palette ==
    {PureGreen, <<0, 0, 0>>, <<255, 255, 255>>, <<40, 120, 40>>,
     <<100, 110, 100>>, <<60, 70, 60>>, <<10, 30, 10>>}
Images == UNION {[1..n -> Palette] : n \in 1..MaxPixels}

InitVC ==
    /\ prog = "classify"
    /\ num_features = 1
    /\ num_sites_arg = 1
    /\ resp = <<>>
    /\ greenmonths = {}
    /\ num_gsv_imgs = 3
    /\ output_metadata = <<>>
    /\ output_greenview = <<>>
    /\ output_shapefile = NoDataSource
    /\ IdleProgram
    /\ NoProcs
    /\ image \in Images
    /\ green_percent = NotClassified
    /\ prev_percent = NotClassified

\* vegetation_classification(image, False) returns
Classify ==
    /\ prog = "classify"
    /\ green_percent = NotClassified
    /\ green_percent' = Classification(image)
    /\ UNCHANGED <<image, prev_percent, results, orderVars, output_shapefile,
                   stage_log, procVars, inputVars, mcVars,
                   icVars, gvVars, exVars, histVars, disk, pc, b, k, task,
                   issued, ends>>

\* the caller makes the next image: one more pure-green pixel at the end,
\* all the pixels there were kept
AddGreenPixel ==
    /\ prog = "classify"
    /\ green_percent # NotClassified
    /\ Len(image) < MaxPixels
    /\ image' = Append(image, PureGreen)
    /\ prev_percent' = green_percent
    /\ green_percent' = NotClassified
    /\ UNCHANGED <<results, orderVars, output_shapefile, stage_log, procVars, inputVars,
                   mcVars, icVars, gvVars,
                   exVars, histVars, disk, pc, b, k, task, issued, ends>>

\* the caller makes the next image: a pixel that was not classified as
\* vegetation becomes pure green, all the other pixels are kept
PaintGreenPixel(i) ==
    /\ prog = "classify"
    /\ green_percent # NotClassified
    /\ image[i] # PureGreen
    /\ green_img(image[i], green_percent.threshold) = 0
    /\ image' = [image EXCEPT ![i] = PureGreen]
    /\ prev_percent' = green_percent
    /\ green_percent' = NotClassified
    /\ UNCHANGED <<results, orderVars, output_shapefile, stage_log, procVars, inputVars,
                   mcVars, icVars, gvVars,
                   exVars, histVars, disk, pc, b, k, task, issued, ends>>

NextVC ==
    \/ Classify
    \/ AddGreenPixel
    \/ \E i \in DOMAIN image : PaintGreenPixel(i)

SpecVC == InitVC /\ [][NextVC]_vars

\* ------------------------------------------------------------- history
LastEnd == IF Len(ends) = 0 THEN "none" ELSE ends[Len(ends)]
RunEnded == pc = "stopped" /\ Len(ends) > 0
RunCompleted == RunEnded /\ LastEnd = "done"
\* the points the current run has looked up
LookedUp == {p \in 0..(num_features - 1) : <<"metadata", p>> \in issued}
\* every run so far completed or was interrupted between two batches
CleanHistory == \A r \in 1..Len(ends) : ends[r] \in {"done", "between"}
\* a run is under way and the run before it completed
RerunAfterDone == pc # "stopped" /\ LastEnd = "done"

Lines == {<<n, j>> : n \in DOMAIN output_metadata, j \in 1..MaxFeatures}
Written == {l \in Lines : l[2] <= Len(output_metadata[l[1]])}
LineOf(l) == output_metadata[l[1]][l[2]]
FilePanoIds == {LineOf(l).panoID : l \in Written}
NoDuplicatePanoID ==
    \A l1, l2 \in Written : LineOf(l1).panoID = LineOf(l2).panoID => l1 = l2

\* what one run that nothing interrupts leaves in an empty directory
RECURSIVE WriteBatch(_, _, _, _)
WriteBatch(ms, j, seen, lines) ==
    IF j > Len(ms) THEN [seen |-> seen, lines |-> lines]
    ELSE LET m == ms[j]
             keep == m.status = "OK" /\ m.pano_id \notin seen
         IN  WriteBatch(ms, j + 1,
                        IF keep THEN seen \cup {m.pano_id} ELSE seen,
                        IF keep THEN Append(lines, PanoRecord(m)) ELSE lines)

RECURSIVE RunBatches(_, _, _)
RunBatches(i, seen, dir) ==
    IF i >= batch THEN dir
    ELSE IF Exists(dir, FileName(i)) THEN RunBatches(i + 1, seen, dir)
    ELSE LET r == WriteBatch(BatchMetadata(i), 1, seen, <<>>)
         IN  RunBatches(i + 1, r.seen,
                        SetFile(CreateFile(dir, FileName(i)), FileName(i), r.lines))

UninterruptedRun == RunBatches(0, {}, <<>>)

\* ------------------------------------------------------------- claims

\* C1: a batch file that exists under its final name belongs to a batch whose
\* lookups have all completed and whose records are all in the file; an empty
\* or partly written batch file is never visible.
C1_BatchFileMeansBatchDone ==
    \A n \in DOMAIN output_metadata : n \in finished

\* C2: a GV_{stem}.jsonl that exists holds the GviRecord of every green-season
\* PanoRecord of its metadata batch; a partly written GVI file is never visible
\* under its final name.
C2_GvFileMeansBatchDone ==
    \A n \in DOMAIN output_greenview :
        LET want == GreenPanos(output_metadata[n])
            have == output_greenview[n]
        IN  /\ Len(have) = Len(want)
            /\ \A i \in 1..Len(want) : have[i].panoID = want[i].panoID

\* C3: after runs that each completed or were interrupted between batches, no
\* panoID occurs in two PanoRecords, within one batch file or across batch
\* files, and at the start of a run the seen-panoID set holds every panoID of
\* the existing batch files.
C3_UniqueAcrossRuns ==
    CleanHistory =>
        /\ NoDuplicatePanoID
        /\ (pc = "loop" /\ b = 0) => FilePanoIds \subseteq unique_pano_ids

\* C4: a run interrupted after some completed batches and then resumed ends
\* with the same batch files, with the same contents, as one uninterrupted
\* run over the same points and lookup responses.
C4_ResumeEqualsUninterrupted ==
    (RunCompleted /\ CleanHistory) => output_metadata = UninterruptedRun

\* C5: when the processing of a batch does not run to completion, no output
\* file of that batch exists afterwards, and the next invocation issues the
\* lookups of that batch again.
C5_FailedBatchLeavesNoFile ==
    /\ \A n \in failed : ~Exists(output_metadata, n)
    /\ RunCompleted => failed = {}

\* C6: a lookup that fails with a network error drops only its point; the run
\* does not abort, the other points of the batch still yield their records and
\* the following batches are processed.
C6_LookupErrorNotFatal ==
    /\ \A r \in 1..Len(ends) : ends[r] # "error"
    /\ RunCompleted =>
          \A p \in LookedUp : resp[p].status = "OK" => resp[p].pano_id \in FilePanoIds

\* C7: a failed fetch for one heading (a response that is not OK, or a
\* transport failure) only leaves that view missing; the run is not ended by
\* it and every view that was delivered is written to the image store.
Stored(v) ==
    v[1] \in DOMAIN output_streetview /\ v[2] \in output_streetview[v[1]]
C7_FailedFetchNotFatal ==
    /\ \A r \in 1..Len(ends) : ends[r] # "error"
    /\ (RunEnded /\ LastEnd \notin {"between", "inside"}) =>
          \A v \in got : Stored(v)

\* C8: at every moment of a Sample Collector or Image Fetcher run at most
\* MAX_CONCURRENT requests are in flight, whatever the number of requests of
\* the batch and the order in which they complete.
C8_InFlightBounded == InFlight <= MAX_CONCURRENT

\* every permit is taken and a request of the batch waits at the gate
C8_Witness ==
    /\ InFlight = MAX_CONCURRENT
    /\ \E i \in DOMAIN task : task[i] = "pending"

\* C9: in one run that nothing interrupts, when two or more sample points (of
\* one batch or of different batches) resolve to the same panoID, exactly one
\* PanoRecord with that panoID is written in the batch files of the run.
ResolvedTo(id) == {p \in LookedUp : resp[p] = OkPano(id)}
RunFiles == {FileName(i) : i \in {j \in 0..(batch - 1) : StartOf(j) \in LookedUp}}
WrittenByRun(id) ==
    {l \in Written : l[1] \in RunFiles /\ LineOf(l).panoID = id}
C9_OneRecordPerPanoID ==
    RunCompleted =>
        \A id \in PanoIds :
            Cardinality(ResolvedTo(id)) >= 2 => Cardinality(WrittenByRun(id)) = 1

\* a completed run in which two points of different batches resolved to the
\* same panoID
C9_Witness ==
    /\ RunCompleted
    /\ \E id \in PanoIds : \E p, q \in ResolvedTo(id) :
          /\ p \div num_sites # q \div num_sites
          /\ Cardinality(WrittenByRun(id)) = 1

\* C10: a second run on the same input and output directory, after a run that
\* completed, issues no metadata lookup and leaves every batch file unchanged.
C10_SecondRunIsNoOp ==
    /\ [](RerunAfterDone => issued = {})
    /\ [][RerunAfterDone => output_metadata' = output_metadata]_vars

\* the second run has gone through all batches, and there are records on disk
C10_Witness ==
    /\ RerunAfterDone
    /\ b = batch
    /\ batch >= 2
    /\ FilePanoIds # {}
    /\ issued = {}

\* ---------------------------------------------- claims on the Image Fetcher
\* the PanoRecords of the metadata files
MetaLines ==
    {<<n, j>> : n \in DOMAIN output_metadata, j \in 1..(MaxLines + 1)}
MetaWritten == {l \in MetaLines : l[2] <= Len(output_metadata[l[1]])}
\* the headings the current run has requested for a panoID
RequestedHeadings(id) ==
    {q[2][2] : q \in {x \in issued : x[1] = "image" /\ x[2][1] = id}}

\* C11: a second run of the Image Fetcher on the same metadata files and the
\* same image store, after a run that completed (whichever view fetches
\* failed in it), issues no imagery request and leaves the store unchanged.
C11_SecondFetchIsNoOp ==
    RerunAfterDone => issued = {} /\ output_streetview = start_store

\* C12: a run issues no request for a panoID that has a namespace in the
\* image store when the run starts, and neither adds, rewrites nor deletes a
\* view file of it; the ImageSet of a panoID never shrinks.
C12_ExistingNamespaceUntouched ==
    /\ [](\A id \in DOMAIN start_store :
            /\ id \in DOMAIN output_streetview
            /\ output_streetview[id] = start_store[id]
            /\ RequestedHeadings(id) = {})
    /\ [][\A id \in DOMAIN output_streetview :
            /\ id \in DOMAIN output_streetview'
            /\ output_streetview[id] \subseteq output_streetview'[id]]_vars

\* a later run has completed on metadata that hold a green-season panorama
\* whose namespace the run found with fewer views than a full ImageSet
C12_Witness ==
    /\ RunCompleted
    /\ Len(ends) >= 2
    /\ \E l \in MetaWritten :
          /\ Month(LineOf(l).panoDate) \in greenmonths
          /\ LineOf(l).panoID \in DOMAIN start_store
          /\ Cardinality(start_store[LineOf(l).panoID]) < 3
          /\ output_streetview = start_store

\* C13: views are requested for a PanoRecord if and only if the capture month
\* of its panoDate "YYYY-MM-DD" is in the green-season set and its panoID is
\* not in the image store.
CaptureMonth(pano_date) == pano_date[2]
C13_RequestIffGreenAndNew ==
    (RunEnded /\ LastEnd \in {"done", "unpack"}) =>
        \A l \in MetaWritten :
            RequestedHeadings(LineOf(l).panoID) # {}
                <=> /\ CaptureMonth(LineOf(l).panoDate) \in greenmonths
                    /\ LineOf(l).panoID \notin DOMAIN start_store

\* C14: for every eligible panorama, whatever the length of its panoID, and
\* every number of views k, exactly k requests are issued, one for each
\* heading i * 360/k with i = 0..k-1.
C14_KRequestsPerPanorama ==
    /\ \A r \in 1..Len(ends) : ends[r] # "unpack"
    /\ (prog = "images" /\ pc = "save") =>
          \A i \in DOMAIN svi_requests :
              RequestedHeadings(svi_requests[i][1]) =
                  {j * (360 \div num_gsv_imgs) : j \in 0..(num_gsv_imgs - 1)}

\* --------------------------------------------- claims on the GVI Aggregator
\* the GviRecords of the GVI files
GvLines ==
    {<<n, j>> : n \in DOMAIN output_greenview, j \in 1..(MaxLines + 1)}
GvWritten == {l \in GvLines : l[2] <= Len(output_greenview[l[1]])}
GvLineOf(l) == output_greenview[l[1]][l[2]]
\* the headings of which the aggregator obtained a view for the record
ObtainedViews(l) ==
    {h \in {headings[i] : i \in 1..3} : <<l[1], l[2], h>> \in fetched_ok}
RECURSIVE PercentSum(_, _)
PercentSum(pano_id, hs) ==
    IF hs = {} THEN 0
    ELSE LET h == CHOOSE x \in hs : TRUE
         IN  Percent(pano_id, h) + PercentSum(pano_id, hs \ {h})

\* C15: a PanoRecord for which no view is obtained gets a greenview that is a
\* negative number, never an average and never an undefined value.
C15_NoViewGivesSentinel ==
    \A l \in GvWritten :
        ObtainedViews(l) = {} =>
            GvLineOf(l).greenview.n > 0 /\ GvLineOf(l).greenview.sum < 0

\* C16: with at least one obtained view, greenview is the mean of the
\* percentages of exactly the obtained views (a failed view counts neither in
\* the sum nor in the divisor), and lies in [0,100].
C16_MeanOverObtainedViews ==
    \A l \in GvWritten :
        LET hs == ObtainedViews(l)
            gv == GvLineOf(l).greenview
        IN  hs # {} =>
                /\ gv.n = Cardinality(hs)
                /\ gv.sum = PercentSum(GvLineOf(l).panoID, hs)
                /\ 0 <= gv.sum
                /\ gv.sum <= 100 * gv.n

\* a record whose views were obtained for some headings and failed for others
C16_Witness ==
    \E l \in GvWritten :
        /\ ObtainedViews(l) # {}
        /\ Cardinality(ObtainedViews(l)) < 3
        /\ GvLineOf(l).greenview.sum > 0

\* C17: a GVI file the aggregator has finished holds exactly one GviRecord
\* for every green-season PanoRecord of the metadata batch, also for the
\* panoramas without a view, and no panoID twice.
IsGreen(metadata) == CaptureMonth(metadata.panoDate) \in greenmonths
StoredViews(pano_id) ==
    IF pano_id \in DOMAIN output_streetview
    THEN output_streetview[pano_id] ELSE {}
C18_ClassifiesStoredViews ==
    prog = "gvi" =>
        /\ issued = {}
        /\ \A l \in GvWritten :
              GvLineOf(l).greenview.n =
                  Cardinality(StoredViews(GvLineOf(l).panoID))

\* -------------------------------------------- claims on the batch division
\* C19: for F points and batch size B the Sample Collector forms exactly
\* ceil(F/B) batches; their ranges [start,end) are pairwise disjoint,
\* contiguous and cover 0..F-1, and every batch but the last has B points.
C19_BatchesPartitionThePoints ==
    (prog = "metadata" /\ RunCompleted) =>
        LET F == num_features
            B == num_sites_arg
            R == DOMAIN output_metadata
        IN  /\ Cardinality(R) * B >= F
            /\ (Cardinality(R) - 1) * B < F
            /\ \A p \in 0..(F - 1) :
                  Cardinality({r \in R : r[1] <= p /\ p < r[2]}) = 1
            /\ \A r \in R :
                  /\ 0 <= r[1] /\ r[1] < r[2] /\ r[2] <= F
                  /\ r[1] = 0 \/ \E q \in R : q[2] = r[1]
                  /\ r[2] - r[1] = B \/ r[2] = F

\* a completed run over several batches, the last one smaller than B
C19_Witness ==
    /\ prog = "metadata"
    /\ RunCompleted
    /\ Cardinality(DOMAIN output_metadata) >= 2
    /\ \E r \in DOMAIN output_metadata :
          r[2] = num_features /\ r[2] - r[1] < num_sites_arg

\* ------------------------------------------ claims on the Result Exporter
\* the lines of the GVI files one after the other in scan order
RECURSIVE ScanLines(_)
ScanLines(order) ==
    IF order = <<>> THEN <<>>
    ELSE output_greenview[Head(order)] \o ScanLines(Tail(order))

\* C20: in the list read_gvi_data returns every panoID of any GVI file occurs
\* exactly once, with the record of its first occurrence in scan order.
C20_FirstOccurrenceWins ==
    (prog = "export" /\ RunCompleted) =>
        LET all == ScanLines(scan_order)
        IN  /\ \A i \in DOMAIN all :
                  Cardinality({j \in DOMAIN gvi_data :
                                  gvi_data[j].panoID = all[i].panoID}) = 1
            /\ \A j \in DOMAIN gvi_data :
                  \E i \in DOMAIN all :
                      /\ gvi_data[j] = all[i]
                      /\ \A m \in 1..(i - 1) : all[m].panoID # all[i].panoID

\* the list returned for two files where a panoID of the first file comes
\* again, with another greenview, in the same file and in the second file
C20_Witness ==
    /\ prog = "export"
    /\ RunCompleted
    /\ Len(scan_order) = 2
    /\ LET first == output_greenview[scan_order[1]]
           second == output_greenview[scan_order[2]]
       IN  /\ Len(first) = 2
           /\ first[1].panoID = first[2].panoID
           /\ first[1] # first[2]
           /\ \E m \in DOMAIN second :
                 second[m].panoID = first[1].panoID /\ second[m] # first[1]
           /\ first[1] \in {gvi_data[j] : j \in DOMAIN gvi_data}

\* ------------------------------------- claims on the Vegetation Classifier
Classified == prog = "classify" /\ green_percent # NotClassified

\* C21: the threshold applied to ExG is the raw Otsu threshold clamped to
\* [0.05, 0.10]: 0.10 when the raw value is above 0.10, 0.05 when it is below
\* 0.05, the raw value otherwise.
C21_ThresholdClamped ==
    Classified =>
        LET raw == green_percent.raw
            thr == green_percent.threshold
        IN  /\ raw = threshold_otsu(image)
            /\ 20 * thr >= Unit
            /\ 10 * thr <= Unit
            /\ 10 * raw > Unit => 10 * thr = Unit
            /\ 20 * raw < Unit => 20 * thr = Unit
            /\ (20 * raw >= Unit /\ 10 * raw <= Unit) => thr = raw

\* an image whose raw threshold is above 0.10, with a pixel whose ExG lies
\* between 0.10 and the raw threshold
C21_Witness ==
    /\ Classified
    /\ 10 * green_percent.raw > Unit
    /\ \E i \in DOMAIN image :
          /\ green_pixels(image[i]) * 512 <= green_percent.raw
          /\ green_pixels(image[i]) * 10 > 255
          /\ green_img(image[i], green_percent.threshold) = 1

\* C22: a pixel counts as vegetation exactly when (red < 0.6, green < 0.9,
\* blue < 0.6 and ExG > threshold) or (red, green, blue < 0.3 and
\* ExG > 0.05); the result is 100 * count / size, between 0 and 100.
IsVegetation(p, thr) ==
    \/ /\ 10 * p[1] < 6 * 255
       /\ 10 * p[2] < 9 * 255
       /\ 10 * p[3] < 6 * 255
       /\ 512 * ((p[2] - p[1]) + (p[2] - p[3])) > thr
    \/ /\ 10 * p[1] < 3 * 255
       /\ 10 * p[2] < 3 * 255
       /\ 10 * p[3] < 3 * 255
       /\ 20 * ((p[2] - p[1]) + (p[2] - p[3])) > 255
C22_VegetationMask ==
    Classified =>
        /\ green_percent.size = Len(image)
        /\ green_percent.count =
              Cardinality({i \in DOMAIN image :
                              IsVegetation(image[i], green_percent.threshold)})
        /\ 0 <= 100 * green_percent.count
        /\ 100 * green_percent.count <= 100 * green_percent.size

\* an image with a pixel that both rules take as vegetation, a pixel that
\* only the first rule takes and a pixel that none takes
C22_Witness ==
    /\ Classified
    /\ \E i, j, m \in DOMAIN image :
          LET thr == green_percent.threshold
          IN  /\ NpMul(green_img_thre(image[i]), green_mask(image[i], thr)) = 1
              /\ NpMul(green_shadow_mask(image[i]), green_img_shadow(image[i])) = 1
              /\ NpMul(green_img_thre(image[j]), green_mask(image[j], thr)) = 1
              /\ green_img_shadow(image[j]) = 0
              /\ green_img(image[m], thr) = 0

\* C23: more pure-green pixels (R=0, G=255, B=0) in an image, all other
\* pixels kept, never give a smaller percentage.
C23_MonotoneInGreenPixels ==
    (Classified /\ prev_percent # NotClassified) =>
        green_percent.count * prev_percent.size
            >= prev_percent.count * green_percent.size

\* ------------------------------------ claims on the lookups of a batch
\* the points of the batch a batch file belongs to
PointsOf(name) == name[1]..(name[2] - 1)

\* C25: a lookup whose status is not OK gives no PanoRecord and no error: the
\* batch goes on, and every record of a batch file carries the pano_id of an
\* OK response to a point of that batch.
C25_NonOkLookupDropped ==
    /\ [](prog = "metadata" =>
            \A l \in Written :
                \E q \in PointsOf(l[1]) :
                    /\ resp[q].status = "OK"
                    /\ resp[q].pano_id = LineOf(l).panoID)
    /\ [][(prog = "metadata" /\ pc = "write" /\ ends' = ends
             /\ resp[StartOf(b) + k - 1].status # "OK")
            => (output_metadata' = output_metadata /\ pc' \in {"write", "loop"})]_vars

\* a completed run with a batch where a point without panorama comes before
\* a point whose record is in the batch file
C25_Witness ==
    /\ prog = "metadata"
    /\ RunCompleted
    /\ \E l \in Written : \E q, r \in PointsOf(l[1]) :
          /\ q < r
          /\ resp[q].status # "OK"
          /\ resp[r].status = "OK"
          /\ resp[r].pano_id = LineOf(l).panoID

\* C27: for fixed points and responses the contents of the batch files are
\* the same whatever the order in which the lookups complete: the results
\* are consumed in point order.
C27_CompletionOrderIrrelevant ==
    prog = "metadata" =>
        /\ pc = "write" => results = BatchMetadata(b)
        /\ (pc = "stopped" /\ ends = <<"done">>) =>
              output_metadata = UninterruptedRun

\* a completed run in which a lookup returned before one admitted earlier,
\* for a batch with records of two panoramas
C27_Witness ==
    /\ prog = "metadata"
    /\ pc = "stopped"
    /\ ends = <<"done">>
    /\ out_of_order
    /\ \E n \in DOMAIN output_metadata : Len(output_metadata[n]) >= 2

\* C29: no PanoRecord is written to the batch file while a lookup of the
\* batch is in flight: the first record is written after all lookups of the
\* batch have returned.
RecordWritten ==
    \E n \in DOMAIN output_metadata :
        /\ n \in DOMAIN output_metadata'
        /\ Len(output_metadata'[n]) > Len(output_metadata[n])
C29_WriteAfterAllLookups ==
    [][(prog = "metadata" /\ RecordWritten) =>
          /\ \A i \in DOMAIN task : task[i] = "done"
          /\ \A q \in PointsOf(FileName(b)) :
                <<<<"metadata", q>>, FileName(b)>> \in completed]_vars

\* the records of a batch with more lookups than permits are being written
C29_Witness ==
    /\ prog = "metadata"
    /\ pc = "write"
    /\ BatchSize(b) > MAX_CONCURRENT
    /\ Len(output_metadata[FileName(b)]) >= 1
    /\ \A q \in PointsOf(FileName(b)) :
          <<<<"metadata", q>>, FileName(b)>> \in completed

\* ------------------------------------------ claims on the point dataset
\* C26: create_point_feature_ogr called on a destination that holds a
\* dataset ends with a dataset of exactly one feature per record of the
\* list and none of the features that were there before.
C26_DatasetReplaced ==
    (prog = "export" /\ RunCompleted) =>
        /\ output_shapefile.exists
        /\ Len(output_shapefile.features) = Len(gvi_data)
        /\ \A j \in DOMAIN gvi_data :
              LET f == output_shapefile.features[j]
              IN  /\ f.PntNum = j - 1
                  /\ f.panoID = gvi_data[j].panoID
                  /\ f.panoDate = gvi_data[j].panoDate
                  /\ f.greenView = gvi_data[j].greenview
                  /\ f.point = <<gvi_data[j].longitude, gvi_data[j].latitude>>

\* the exporter has run again over the dataset of its first run, which held
\* features
C26_Witness ==
    /\ prog = "export"
    /\ RunCompleted
    /\ Len(ends) >= 2
    /\ Len(gvi_data) >= 2
    /\ Len(output_shapefile.features) = Len(gvi_data)

\* ------------------------------------------------ claims on the batch order
\* the file of batch x comes before the file of batch y in the order the
\* program takes them: by start index in the collector, by name elsewhere
BatchBefore(x, y) ==
    IF prog = "metadata" THEN x[1] < y[1]
    ELSE LexLess(NameChars(x), NameChars(y))
\* the output of the batch of request r is on disk
OutputWritten(r) ==
    CASE prog = "metadata" ->
            r[2] \in DOMAIN output_metadata /\ r[2] \in finished
      [] prog = "images" ->
            LET v == <<r[1][2][1], ViewName(r[1][2])>>
            IN  v \in got => Stored(v)
      [] OTHER ->
            /\ r[2] \in DOMAIN output_greenview
            /\ r[2] \in finished
            /\ \E j \in DOMAIN output_greenview[r[2]] :
                  output_greenview[r[2]][j].panoID = r[1][2][1]

\* C28: batches are processed one after another in ascending order: when a
\* request of a batch is issued, every request the run issued for another
\* batch has completed, belongs to an earlier batch, and the output of that
\* batch has been written.
C28_BatchesOneAfterAnother ==
    [][\A q \in batch_of' \ batch_of :
          \A r \in batch_of :
              r[2] # q[2] =>
                  /\ r \in completed
                  /\ BatchBefore(r[2], q[2])
                  /\ OutputWritten(r)]_vars

\* the Image Fetcher has completed a run with requests for two metadata files
C28_Witness ==
    /\ prog = "images"
    /\ RunCompleted
    /\ \E q, r \in batch_of : q[2] # r[2]

\* ------------------------------- claims on aggregator processes side by side
\* C30: when several aggregator processes run on the same metadata and
\* output directories, every GVI file is written by at most one of them.
C30_OneWriterPerGviFile ==
    \A n \in DOMAIN writers : Cardinality(writers[n]) <= 1

\* ------------------------------------------------- claims on the pipeline
\* the records of a panoID in the metadata files, in the GVI files, and the
\* features of it in the dataset
MetaRecordsOf(id) == {l \in Written : LineOf(l).panoID = id}
GviRecordsOf(id) == {l \in GvWritten : GvLineOf(l).panoID = id}
FeaturesOf(id) ==
    {j \in DOMAIN output_shapefile.features :
        output_shapefile.features[j].panoID = id}
\* the imagery requests a program of the pipeline issued for a panoID
StageRequests(name, id) ==
    UNION {{q \in stage_log[j].issued : q[1] = "image" /\ q[2][1] = id} :
              j \in {x \in DOMAIN stage_log : stage_log[x].prog = name}}

\* C24: in the scenario, once the four programs have run, the metadata files
\* hold exactly one record for P1, the Image Fetcher has fetched 3 headings
\* for P1, the GVI files hold one record for P1 whose greenview is the mean of
\* the 3 classifier outputs, and the dataset has one point feature for P1.
C24_EndToEnd ==
    LET P1 == <<"P", "1">>
    IN  (/\ prog = "export"
         /\ RunCompleted
         /\ \E i \in DOMAIN resp : resp[i] = ScenarioPano(P1)) =>
            /\ Cardinality(MetaRecordsOf(P1)) = 1
            /\ Cardinality(StageRequests("images", P1)) = 3
            /\ Cardinality(GviRecordsOf(P1)) = 1
            /\ \A l \in GviRecordsOf(P1) :
                  GvLineOf(l).greenview.n = 3 =>
                      GvLineOf(l).greenview =
                          Mean([i \in 1..3 |-> Percent(P1, headings[i])])
            /\ Cardinality(FeaturesOf(P1)) = 1

\* C32: a namespace of the image store that holds fewer than k views when a
\* run has ended (some fetches failed, or the run was interrupted while it
\* saved) is changed by no later step: not between two runs, and not by a
\* later run of the Image Fetcher, which finds it in the store when it
\* starts.  It keeps its views for ever.
C32_IncompleteStaysIncomplete ==
    [][\A id \in DOMAIN output_streetview :
          (/\ Cardinality(output_streetview[id]) < num_gsv_imgs
           /\ pc = "stopped" \/ id \in DOMAIN start_store)
              => /\ id \in DOMAIN output_streetview'
                 /\ output_streetview'[id] = output_streetview[id]]_vars

\* a later run has completed over the metadata of a green-season panorama
\* whose namespace an earlier run left with some views but not all of them
C32_Witness ==
    /\ RunCompleted
    /\ Len(ends) >= 2
    /\ ends[1] \in {"inside", "done"}
    /\ \E l \in MetaWritten :
          /\ Month(LineOf(l).panoDate) \in greenmonths
          /\ LineOf(l).panoID \in DOMAIN output_streetview
          /\ Cardinality(output_streetview[LineOf(l).panoID]) \in {1, 2}

\* C33: within one run of the Image Fetcher no (panoID, heading) pair is
\* requested twice: the requests built for one metadata file are pairwise
\* different, and no request goes out for two metadata files.
C33_OneRequestPerView ==
    prog = "images" =>
        /\ \A i, j \in DOMAIN svi_requests :
              svi_requests[i] = svi_requests[j] => i = j
        /\ \A x, y \in batch_of : x[1] = y[1] => x[2] = y[2]

\* a run has completed that requested the views of a panorama which the
\* metadata files name twice
C33_Witness ==
    /\ prog = "images"
    /\ RunCompleted
    /\ \E l1, l2 \in MetaWritten :
          /\ l1 # l2
          /\ LineOf(l1).panoID = LineOf(l2).panoID
          /\ RequestedHeadings(LineOf(l1).panoID) # {}

\* C34: a run of the Sample Collector on a layer of zero sample points ends
\* normally, having issued no lookup and created no batch file.
C34_EmptyLayerEndsNormally ==
    (prog = "metadata" /\ num_features = 0 /\ RunEnded) =>
        /\ LastEnd = "done"
        /\ issued = {}
        /\ DOMAIN output_metadata = {}

\* C35: the legacy collector forms ceil(F/B) batches that together cover
\* every point index 0..F-1: after a first run that returned, there are
\* that many batch files and every sample point has had its lookup.
C35_LegacyCoversEveryPoint ==
    (prog = "metadataCollector" /\ pc = "stopped" /\ ends = <<"done">>) =>
        /\ Cardinality(DOMAIN output_metadata) = Ceil(num_features, num_sites_arg)
        /\ \A p \in 0..(num_features - 1) : <<"metadata", p>> \in issued

\* ------------------------------------------ claims on the legacy aggregator
\* the headings of which the legacy aggregator classified a view for a line
ClassifiedViews(l) ==
    {h \in {headingArr[i] : i \in 1..6} : <<l[1], l[2], h>> \in fetched_ok}
\* C36: every greenview the legacy aggregator writes is either the mean of
\* the classifier outputs of all 6 headings, a value from 0 to 100, or the
\* one sentinel -1000/6; it is the sentinel as soon as a heading failed,
\* however many headings succeeded before.
C36_MeanOfSixOrSentinel ==
    prog = "GreenViewCalculate" =>
        \A l \in GvWritten :
            LET gv == GvLineOf(l).greenview
                hs == ClassifiedViews(l)
            IN  /\ gv.n = 6
                /\ IF Cardinality(hs) = 6
                   THEN /\ gv.sum = PercentSum(GvLineOf(l).panoID, hs)
                        /\ 0 <= gv.sum
                        /\ gv.sum <= 100 * 6
                   ELSE gv.sum = 0 - 1000

\* a written line of a panorama whose first headings were classified as
\* green before a later heading failed, and a line with all six headings
C36_Witness ==
    /\ prog = "GreenViewCalculate"
    /\ \E l \in GvWritten :
          /\ Cardinality(ClassifiedViews(l)) \in 1..5
          /\ PercentSum(GvLineOf(l).panoID, ClassifiedViews(l)) > 0
    /\ \E l \in GvWritten : Cardinality(ClassifiedViews(l)) = 6

\* C37: every GviRecord an aggregator writes (green_view_computing and the
\* legacy GreenViewComputing_ogr_6Horizon) has the panoID, the panoDate, the
\* longitude and the latitude of its source PanoRecord, and the greenview
\* field besides.
C37_GviRecordKeepsPanoRecord ==
    prog \in {"gvi", "GreenViewCalculate"} =>
        \A l \in GvWritten :
            LET source == GreenPanos(output_metadata[l[1]])[l[2]]
                record == GvLineOf(l)
            IN  /\ DOMAIN record = DOMAIN source \cup {"greenview"}
                /\ record.panoID = source.panoID
                /\ record.panoDate = source.panoDate
                /\ record.longitude = source.longitude
                /\ record.latitude = source.latitude

====
